---- MODULE Spec2Model ----
(***************************************************************************)
(* Receipt-scanning pipeline of plataforma-nowaste                         *)
(* (app/services/ticket_scanner_service.py, app/api/ticket_scan.py).       *)
(*                                                                         *)
(* Text is modelled character by character: a Python str is a sequence of  *)
(* one-character strings.  Indices i, start_idx, end_idx are the 0-based   *)
(* indices of the Python code; the k-th Python element of a list ls is     *)
(* ls[k + 1] here.  An Optional value is <<>> (None) or <<v>>.  A float    *)
(* that was parsed from a decimal literal is the integer number of         *)
(* thousandths it denotes (1.50 is 1500); the numeric lines of the model   *)
(* carry at most three fractional digits, so the representation is exact.  *)
(***************************************************************************)
EXTENDS Integers, Sequences, FiniteSets, TLC

VARIABLES
    pc,                 \* position of the call being modelled
    text,               \* parse_product_lines: the argument
    lines,              \* parse_product_lines: text.split('\n')
    start_idx,          \* parse_product_lines: first index of the window
    end_idx,            \* parse_product_lines: index after the window
    i,                  \* parse_product_lines: the cursor
    description_parts,  \* parse_product_lines: the description buffer
    products,           \* parse_product_lines: the items emitted so far
    part_src,           \* history: line index of each buffered part
    item_src,           \* history: line indices each emitted item was read from
    product_name,       \* categorize_product: the argument
    tables,             \* the reference tables of app.utils.product_database
    best_match_score,   \* categorize_product: best fuzzy score
    best_match_data,    \* categorize_product: triple of the best fuzzy match
    cat_result,         \* categorize_product: what the call returned or raised
    request,            \* the call being answered and its arguments
    tmp_exists,         \* scan_ticket: the temporary image file is on disk
    reader_inits,       \* number of easyocr.Reader objects built so far
    ticket,             \* process_ticket: store, location, date, metadata
    processed_products, \* process_ticket: the enriched products so far
    result,             \* what the service called by the handler returned
    session,            \* the rows added to the database session
    inventory,          \* the committed rows of the products table
    response,           \* the answer to the request
    scans,              \* number of requests received so far
    trace,              \* history: the steps of the current request
    previous,           \* history: what process_ticket returned last, in an
                        \* earlier request
    weekly_menus,       \* the rows of the weekly_menus table, with their recipe
    menus,              \* generate_shopping_list_from_menu: the menus queried
    menu_pos,           \* generate_shopping_list_from_menu: menus done so far
    shopping_items,     \* generate_shopping_list_from_menu: the accumulator
    reports             \* history: what check_ingredient_availability
                        \* returned for each menu, in order

segVars == <<text, lines, start_idx, end_idx, i, description_parts, products,
             part_src, item_src>>

segRest == <<lines, start_idx, end_idx, i, description_parts, part_src, item_src>>

catVars == <<product_name, tables, best_match_score, best_match_data,
             cat_result>>

scanVars == <<request, tmp_exists, reader_inits, ticket, processed_products,
              result, session, inventory, response, scans, trace, previous>>

menuVars == <<weekly_menus, menus, menu_pos, shopping_items, reports>>

vars == <<pc, segVars, catVars, scanVars, menuVars>>

(***************************************************************************)
(* Characters and the str methods the code uses                            *)
(***************************************************************************)
UpperSeq ==
    <<"A", "B", "C", "D", "E", "F", "G", "H", "I", "J", "K", "L", "M", "N",
      "O", "P", "Q", "R", "S", "T", "U", "V", "W", "X", "Y", "Z",
      "Á", "É", "Í", "Ó", "Ú", "Ñ">>

LowerSeq ==
    <<"a", "b", "c", "d", "e", "f", "g", "h", "i", "j", "k", "l", "m", "n",
      "o", "p", "q", "r", "s", "t", "u", "v", "w", "x", "y", "z",
      "á", "é", "í", "ó", "ú", "ñ">>

DigitSeq == <<"0", "1", "2", "3", "4", "5", "6", "7", "8", "9">>

Range(f) == {f[k] : k \in DOMAIN f}

Digit == Range(DigitSeq)

Upper == Range(UpperSeq)

Alpha == Upper \cup Range(LowerSeq)

\* the lower-case letter of each upper-case letter
LowerOf ==
    [c \in Upper |-> LowerSeq[CHOOSE k \in DOMAIN UpperSeq : UpperSeq[k] = c]]

Whitespace == {" ", "\t", "\n"}

\* str.isalpha on one character
isalpha(c) == c \in Alpha

\* the regex class \w
IsWord(c) == isalpha(c) \/ c \in Digit \/ c = "_"

\* int() of one digit
DigitVal(c) == (CHOOSE k \in DOMAIN DigitSeq : DigitSeq[k] = c) - 1

ToLower(c) == IF c \in Upper THEN LowerOf[c] ELSE c

\* str.lower
lower(s) == [k \in DOMAIN s |-> ToLower(s[k])]

Min(S) == CHOOSE x \in S : \A y \in S : x <= y

Max(S) == CHOOSE x \in S : \A y \in S : x >= y

\* str.strip
strip(s) ==
    LET keep == {k \in DOMAIN s : s[k] \notin Whitespace}
    IN  IF keep = {} THEN <<>> ELSE SubSeq(s, Min(keep), Max(keep))

\* the "in" operator on str
Contains(s, sub) ==
    \E k \in 0..(Len(s) - Len(sub)) : \A j \in 1..Len(sub) : s[k + j] = sub[j]

\* separator.join(parts)
RECURSIVE join(_, _)
join(sep, parts) ==
    IF parts = <<>> THEN <<>>
    ELSE IF Len(parts) = 1 THEN parts[1]
    ELSE parts[1] \o sep \o join(sep, Tail(parts))

\* str.split(sep) for a one-character separator
RECURSIVE split(_, _)
split(s, sep) ==
    LET cut == {k \in DOMAIN s : s[k] = sep}
    IN  IF cut = {} THEN <<s>>
        ELSE <<SubSeq(s, 1, Min(cut) - 1)>>
                 \o split(SubSeq(s, Min(cut) + 1, Len(s)), sep)

\* str.replace(old, new) for a one-character old
RECURSIVE replace(_, _, _)
replace(s, old, new) ==
    IF s = <<>> THEN <<>>
    ELSE (IF Head(s) = old THEN new ELSE <<Head(s)>>)
             \o replace(Tail(s), old, new)

\* int() of a non-empty run of digits
RECURSIVE IntOf(_)
IntOf(ds) ==
    IF ds = <<>> THEN 0
    ELSE 10 * IntOf(SubSeq(ds, 1, Len(ds) - 1)) + DigitVal(ds[Len(ds)])

\* thousandths per unit: the resolution of the modelled floats
Scale == 10 * 10 * 10

\* float() accepts s: digits with at most one point and at least one digit
IsFloatLiteral(s) ==
    /\ \A k \in DOMAIN s : s[k] \in Digit \cup {"."}
    /\ Cardinality({k \in DOMAIN s : s[k] = "."}) <= 1
    /\ \E k \in DOMAIN s : s[k] \in Digit

\* float() of an accepted literal, in thousandths
FloatOf(s) ==
    LET dots == {k \in DOMAIN s : s[k] = "."}
        p    == IF dots = {} THEN Len(s) + 1 ELSE Min(dots)
        int  == SubSeq(s, 1, p - 1)
        frac == SubSeq(s, p + 1, Len(s))
        pad  == SubSeq(frac \o <<"0", "0", "0">>, 1, 3)
    IN  IntOf(int) * Scale + IntOf(pad)

\* the regex ^[\d\s,\.]+$ on a stripped line
AllNumeric(s) ==
    /\ s # <<>>
    /\ \A k \in DOMAIN s : s[k] \in Digit \cup Whitespace \cup {",", "."}

(***************************************************************************)
(* is_price, is_description                                                *)
(***************************************************************************)
\* is_price without the range check
is_price_any_value(line) ==
    LET l       == strip(line)
        cleaned == replace(replace(l, " ", <<>>), ",", <<".">>)
    IN  IF AllNumeric(l) /\ IsFloatLiteral(cleaned)
        THEN <<FloatOf(cleaned)>>
        ELSE <<>>

\* is_price with a decimal separator required
is_price_decimal_only(line) ==
    LET l       == strip(line)
        cleaned == replace(replace(l, " ", <<>>), ",", <<".">>)
    IN  IF AllNumeric(l) /\ IsFloatLiteral(cleaned) /\ Contains(cleaned, <<".">>)
        THEN LET price == FloatOf(cleaned)
             IN  IF 10 * price > Scale /\ price < 200 * Scale
                 THEN <<price>>
                 ELSE <<>>
        ELSE <<>>

\* is_price reading the number of a line and ignoring its letters
is_price_ignoring_letters(line) ==
    LET l       == strip(SelectSeq(line, LAMBDA c : ~isalpha(c)))
        cleaned == replace(replace(l, " ", <<>>), ",", <<".">>)
    IN  IF AllNumeric(l) /\ IsFloatLiteral(cleaned)
        THEN LET price == FloatOf(cleaned)
             IN  IF 10 * price > Scale /\ price < 200 * Scale
                 THEN <<price>>
                 ELSE <<>>
        ELSE <<>>

\* lines 142-156
is_price(line) ==
    LET l       == strip(line)
        cleaned == replace(replace(l, " ", <<>>), ",", <<".">>)
    IN  IF AllNumeric(l) /\ IsFloatLiteral(cleaned)
        THEN LET price == FloatOf(cleaned)
             IN  IF 10 * price > Scale /\ price < 200 * Scale
                 THEN <<price>>
                 ELSE <<>>
        ELSE <<>>

skip ==
    << <<"m", "e", "r", "c", "a", "d", "o", "n", "a">>,
       <<"f", "a", "c", "t", "u", "r", "a">>,
       <<"t", "e", "l", "e", "f", "o", "n", "o">>,
       <<"t", "e", "l", "é", "f", "o", "n", "o">>,
       <<"a", "v", "d", "a">>,
       <<"d", "e", "s", "c", "r", "i", "p", "c", "i", "ó", "n">>,
       <<"d", "e", "s", "c", "r", "i", "p", "c", "i", "o", "n">>,
       <<"p", ".", "u", "n", "i", "t">>,
       <<"p", ".", " ", "u", "n", "i", "t">>,
       <<"i", "m", "p", ".">>,
       <<"u", "n", "i", "t">>,
       <<"t", "o", "t", "a", "l">>,
       <<"t", "a", "r", "j", "e", "t", "a">>,
       <<"i", "v", "a">>,
       <<"b", "a", "s", "e">>,
       <<"c", "u", "o", "t", "a">>,
       <<"d", "e", "b", "i", "t">>,
       <<"m", "a", "s", "t", "e", "r", "c", "a", "r", "d">>,
       <<"b", "a", "n", "c", "a", "r", "i", "a">>,
       <<"t", "o", "r", "r", "e", "m", "o">>,
       <<"s", " ", "-", "a">>,
       <<"s", "i", "m", "p", "l", "i", "f", "i", "c", "a", "d", "a">> >>

\* is_description without the tests for a letter and for a numeric line
is_description_with_numbers(line) ==
    LET l          == strip(line)
        line_lower == lower(l)
    IN  /\ Len(l) >= 2
        /\ \A w \in DOMAIN skip : ~Contains(line_lower, skip[w])

\* lines 158-181
is_description(line) ==
    LET l          == strip(line)
        line_lower == lower(l)
    IN  /\ Len(l) >= 2
        /\ \E k \in DOMAIN l : isalpha(l[k])
        /\ ~AllNumeric(l)
        /\ \A w \in DOMAIN skip : ~Contains(line_lower, skip[w])

(***************************************************************************)
(* parse_product_lines: the window                                         *)
(***************************************************************************)
descripcion_acute == <<"d", "e", "s", "c", "r", "i", "p", "c", "i", "ó", "n">>

descripcion_plain == <<"d", "e", "s", "c", "r", "i", "p", "c", "i", "o", "n">>

\* the header test of the first loop
IsHeader(line) ==
    \/ Contains(lower(line), descripcion_acute)
    \/ Contains(lower(line), descripcion_plain)

\* re.match(r'^[tT][oO][tT][aA][lL]', line.strip())
IsTotalLabel(line) ==
    LET l == strip(line)
    IN  /\ Len(l) >= 5
        /\ l[1] \in {"t", "T"}
        /\ l[2] \in {"o", "O"}
        /\ l[3] \in {"t", "T"}
        /\ l[4] \in {"a", "A"}
        /\ l[5] \in {"l", "L"}

\* the first loop: index after the first header line, 0 without one
find_start(ls) ==
    LET H == {k \in 0..(Len(ls) - 1) : IsHeader(ls[k + 1])}
    IN  IF H = {} THEN 0 ELSE Min(H) + 1

\* the second loop searching from the first line of the text
find_end_from_top(ls, start) ==
    LET T == {k \in 0..(Len(ls) - 1) : IsTotalLabel(ls[k + 1])}
    IN  IF T = {} THEN Len(ls) ELSE Min(T)

\* the second loop: the first total line at or after start, len(lines) without
find_end(ls, start) ==
    LET T == {k \in start..(Len(ls) - 1) : IsTotalLabel(ls[k + 1])}
    IN  IF T = {} THEN Len(ls) ELSE Min(T)

(***************************************************************************)
(* parse_product_lines: flushing the description buffer                    *)
(***************************************************************************)
\* the regex assertion \b at 0-based position k of s
Boundary(s, k) ==
    (k > 0 /\ IsWord(s[k])) # (k < Len(s) /\ IsWord(s[k + 1]))

\* case-insensitive literal at position k
LitAt(s, k, lit) ==
    /\ k + Len(lit) <= Len(s)
    /\ \A j \in 1..Len(lit) : ToLower(s[k + j]) = lit[j]

\* position after the whitespace run that starts at k (the greedy \s*)
SkipWs(s, k) ==
    IF k >= Len(s) THEN k
    ELSE Min({j \in k..Len(s) : j = Len(s) \/ s[j + 1] \notin Whitespace})

\* ends of the matches of (Unit|P\.?\s*Unit|Imp\.|€|P\.) at k, in the order
\* the regex engine tries them
GarbageEnds(s, k) ==
    LET unit == <<"u", "n", "i", "t">>
        a1 == IF LitAt(s, k, unit) THEN <<k + 4>> ELSE <<>>
        d  == IF LitAt(s, k, <<"p", ".">>) /\ LitAt(s, SkipWs(s, k + 2), unit)
              THEN <<SkipWs(s, k + 2) + 4>> ELSE <<>>
        n  == IF LitAt(s, k, <<"p">>) /\ LitAt(s, SkipWs(s, k + 1), unit)
              THEN <<SkipWs(s, k + 1) + 4>> ELSE <<>>
        a3 == IF LitAt(s, k, <<"i", "m", "p", ".">>) THEN <<k + 4>> ELSE <<>>
        a4 == IF LitAt(s, k, <<"€">>) THEN <<k + 1>> ELSE <<>>
        a5 == IF LitAt(s, k, <<"p", ".">>) THEN <<k + 2>> ELSE <<>>
    IN  a1 \o d \o n \o a3 \o a4 \o a5

\* the first of ends that lies on a \b, or k when there is none
FirstBoundary(s, k, ends) ==
    LET ok == {j \in DOMAIN ends : Boundary(s, ends[j])}
    IN  IF ok # {} THEN ends[Min(ok)] ELSE k

\* end of the match of \b(...)\b at k, or k when there is none
GarbageEnd(s, k) ==
    IF Boundary(s, k) THEN FirstBoundary(s, k, GarbageEnds(s, k)) ELSE k

\* re.sub(r'\b(Unit|P\.?\s*Unit|Imp\.|€|P\.)\b', '', s, flags=re.IGNORECASE):
\* SubGarbage(s, k) is the result for the part of s from position k on, and
\* SubGarbageAt continues from k once the end e of the match at k is known
RECURSIVE SubGarbage(_, _), SubGarbageAt(_, _, _)
SubGarbageAt(s, k, e) ==
    IF e > k THEN SubGarbage(s, e) ELSE <<s[k + 1]>> \o SubGarbage(s, k + 1)

SubGarbage(s, k) ==
    IF k >= Len(s) THEN <<>> ELSE SubGarbageAt(s, k, GarbageEnd(s, k))

\* re.sub(r'\s+', ' ', s)
RECURSIVE SubSpaces(_, _)
SubSpaces(s, k) ==
    IF k >= Len(s) THEN <<>>
    ELSE IF s[k + 1] \in Whitespace THEN <<" ">> \o SubSpaces(s, SkipWs(s, k))
    ELSE <<s[k + 1]>> \o SubSpaces(s, k + 1)

\* full_description joining the buffer last line first
full_description_reversed(parts) ==
    SubSpaces(strip(SubGarbage(join(<<" ">>,
                                    [k \in DOMAIN parts |->
                                        parts[Len(parts) + 1 - k]]), 0)), 0)

\* full_description: join, strip the garbage words, normalise the spaces
full_description(parts) ==
    SubSpaces(strip(SubGarbage(join(<<" ">>, parts), 0)), 0)

\* number of leading digits
LeadingDigits(s) ==
    Max({n \in 0..Len(s) : \A k \in 1..n : s[k] \in Digit})

\* re.match(r'^(\d+)\s+(.+)', s), n being the number of leading digits
qty_match(s, n) ==
    n > 0 /\ Len(s) >= n + 2 /\ s[n + 1] \in Whitespace

\* group(2) of qty_match, stripped; j is the position after the \s+ run
qty_rest(s, j) ==
    IF j < Len(s) THEN strip(SubSeq(s, j + 1, Len(s)))
    ELSE strip(<<s[Len(s)]>>)

\* quantity, given the number n of leading digits of full_description
quantity_of(full, n) ==
    IF qty_match(full, n) THEN IntOf(SubSeq(full, 1, n)) ELSE 1

\* description, given the number n of leading digits of full_description
description_of(full, n) ==
    IF qty_match(full, n) THEN qty_rest(full, SkipWs(full, n)) ELSE strip(full)

\* quantity read from a full_description
quantity_in(full) == quantity_of(full, LeadingDigits(full))

\* quantity derived from the buffer
derived_quantity(parts) == quantity_in(full_description(parts))

(***************************************************************************)
(* parse_product_lines: the walk                                           *)
(***************************************************************************)
LineItem(q, d, u, p) ==
    [quantity |-> q, description |-> d, unit_price |-> u, price |-> p]

\* the locals of the while loop; part_src and item_src record where the
\* buffered parts and the emitted items were read from
WalkInit(start) ==
    [i |-> start, description_parts |-> <<>>, products |-> <<>>,
     part_src |-> <<>>, item_src |-> <<>>]

\* higher with "next_price >= price"
higher_or_equal(next_price, price) ==
    IF next_price # <<>> /\ next_price[1] # 0 /\ next_price[1] >= price
    THEN next_price
    ELSE <<>>

\* "if next_price and next_price > price": the line total, or none
higher(next_price, price) ==
    IF next_price # <<>> /\ next_price[1] # 0 /\ next_price[1] > price
    THEN next_price
    ELSE <<>>

\* next_total without the test "quantity > 1"
next_total_any_quantity(ls, e, w, price, quantity) ==
    IF w.i + 1 < e
    THEN higher(is_price(strip(ls[w.i + 2])), price)
    ELSE <<>>

\* next_total looking behind the footer when the item ends the window
next_total_past_window(ls, e, w, price, quantity) ==
    IF quantity > 1
    THEN IF w.i + 1 < e
         THEN higher(is_price(strip(ls[w.i + 2])), price)
         ELSE IF w.i + 2 < Len(ls)
              THEN higher(is_price(strip(ls[w.i + 3])), price)
              ELSE <<>>
    ELSE <<>>

\* "if quantity > 1 and i + 1 < end_idx": the line total read from the next
\* line, or none
next_total(ls, e, w, price, quantity) ==
    IF quantity > 1 /\ w.i + 1 < e
    THEN higher(is_price(strip(ls[w.i + 2])), price)
    ELSE <<>>

\* products.append without "i += 1" for the consumed total line
append_item_without_skip(w, quantity, description, price, total) ==
    [i |-> w.i + 1,
     description_parts |-> <<>>,
     products |-> Append(w.products,
                         LineItem(quantity, description,
                                  IF total # <<>> THEN <<price>> ELSE <<>>,
                                  IF total # <<>> THEN total[1] ELSE price)),
     part_src |-> <<>>,
     item_src |-> Append(w.item_src,
                         [description |-> Range(w.part_src),
                          unit_price  |-> IF total # <<>> THEN {w.i} ELSE {},
                          price       |-> IF total # <<>> THEN w.i + 1
                                          ELSE w.i])]

\* lines 247-265: the item appended, the buffer reset, the cursor advanced
\* past the price-line and past the line total when one was taken
append_item(w, quantity, description, price, total) ==
    [i |-> IF total # <<>> THEN w.i + 2 ELSE w.i + 1,
     description_parts |-> <<>>,
     products |-> Append(w.products,
                         LineItem(quantity, description,
                                  IF total # <<>> THEN <<price>> ELSE <<>>,
                                  IF total # <<>> THEN total[1] ELSE price)),
     part_src |-> <<>>,
     item_src |-> Append(w.item_src,
                         [description |-> Range(w.part_src),
                          unit_price  |-> IF total # <<>> THEN {w.i} ELSE {},
                          price       |-> IF total # <<>> THEN w.i + 1
                                          ELSE w.i])]

\* lines 228-265, given full_description and its number n of leading digits
emit_qty(ls, e, w, price, full, n) ==
    append_item(w, quantity_of(full, n), description_of(full, n), price,
                next_total(ls, e, w, price, quantity_of(full, n)))

\* lines 228-265, given full_description
emit_full(ls, e, w, price, full) ==
    emit_qty(ls, e, w, price, full, LeadingDigits(full))

\* the branch "price is not None" with a non-empty buffer
emit(ls, e, w, price) ==
    emit_full(ls, e, w, price, full_description(w.description_parts))

\* step_line with a noise line resetting the buffer
step_line_clearing_on_noise(ls, e, w, line, price) ==
    IF price # <<>>
    THEN IF w.description_parts # <<>>
         THEN emit(ls, e, w, price[1])
         ELSE [w EXCEPT !.i = @ + 1]
    ELSE IF is_description(line)
    THEN [w EXCEPT !.description_parts = Append(@, line),
                   !.part_src = Append(@, w.i),
                   !.i = @ + 1]
    ELSE [w EXCEPT !.i = @ + 1, !.description_parts = <<>>, !.part_src = <<>>]

\* lines 220-274: the iteration on a non-empty line, price being is_price(line)
step_line(ls, e, w, line, price) ==
    IF price # <<>>
    THEN IF w.description_parts # <<>>
         THEN emit(ls, e, w, price[1])
         ELSE [w EXCEPT !.i = @ + 1]
    ELSE IF is_description(line)
    THEN [w EXCEPT !.description_parts = Append(@, line),
                   !.part_src = Append(@, w.i),
                   !.i = @ + 1]
    ELSE [w EXCEPT !.i = @ + 1]

\* lines 211-215: the iteration on the stripped line
step(ls, e, w, line) ==
    IF line = <<>> THEN [w EXCEPT !.i = @ + 1]
    ELSE step_line(ls, e, w, line, is_price(line))

\* one iteration of "while i < end_idx"
walk_step(ls, e, w) == step(ls, e, w, strip(ls[w.i + 1]))

RECURSIVE run_walk(_, _, _)
run_walk(ls, e, w) ==
    IF w.i >= e THEN w ELSE run_walk(ls, e, walk_step(ls, e, w))

\* parse_product_lines as a function of its argument
parse_product_lines(t) ==
    LET ls    == split(t, "\n")
        start == find_start(ls)
    IN  run_walk(ls, find_end(ls, start), WalkInit(start)).products

(***************************************************************************)
(* fuzzywuzzy: process.extractOne(word, keys, scorer=fuzz.ratio), with the *)
(* pure-Python difflib.SequenceMatcher                                     *)
(***************************************************************************)
\* utils.full_process: non-word characters to spaces, lower case, strip
full_process(s) ==
    strip(lower([k \in DOMAIN s |-> IF IsWord(s[k]) THEN s[k] ELSE " "]))

\* the common blocks <<size, position in a, position in b>> of a[alo..ahi) and
\* b[blo..bhi)
Blocks(a, alo, ahi, b, blo, bhi) ==
    {m \in (1..(ahi - alo)) \X (alo..(ahi - 1)) \X (blo..(bhi - 1)) :
        /\ m[2] + m[1] <= ahi
        /\ m[3] + m[1] <= bhi
        /\ \A t \in 1..m[1] : a[m[2] + t] = b[m[3] + t]}

\* SequenceMatcher.find_longest_match: the longest block, the earliest in a,
\* then the earliest in b
Longest(blocks) ==
    CHOOSE m \in blocks : \A n \in blocks :
        \/ m[1] > n[1]
        \/ m[1] = n[1] /\ m[2] < n[2]
        \/ m[1] = n[1] /\ m[2] = n[2] /\ m[3] <= n[3]

\* SequenceMatcher.get_matching_blocks: the number of matched characters
RECURSIVE MatchCount(_, _, _, _, _, _), MatchAround(_, _, _, _, _, _, _),
          MatchIn(_, _, _, _, _, _, _)
MatchAround(a, alo, ahi, b, blo, bhi, m) ==
    m[1] + MatchCount(a, alo, m[2], b, blo, m[3])
         + MatchCount(a, m[2] + m[1], ahi, b, m[3] + m[1], bhi)

MatchIn(a, alo, ahi, b, blo, bhi, blocks) ==
    IF blocks = {} THEN 0
    ELSE MatchAround(a, alo, ahi, b, blo, bhi, Longest(blocks))

MatchCount(a, alo, ahi, b, blo, bhi) ==
    IF alo >= ahi \/ blo >= bhi THEN 0
    ELSE MatchIn(a, alo, ahi, b, blo, bhi, Blocks(a, alo, ahi, b, blo, bhi))

\* utils.intr(100 * (2.0 * matches / length)): round half to even
intr(matches, length) ==
    LET q == (200 * matches) \div length
        r == (200 * matches) % length
    IN  IF 2 * r > length THEN q + 1
        ELSE IF 2 * r = length THEN q + (q % 2)
        ELSE q

\* fuzz.ratio
fuzz_ratio(s1, s2) ==
    IF s1 = s2 THEN 100
    ELSE IF Len(s1) = 0 \/ Len(s2) = 0 THEN 0
    ELSE intr(MatchCount(s1, 0, Len(s1), s2, 0, Len(s2)), Len(s1) + Len(s2))

\* the scores of the keys, in table order
key_scores(word, db) ==
    [k \in DOMAIN db |-> fuzz_ratio(full_process(word), full_process(db[k].key))]

\* max(best_list, key=score): the first key of the highest score
first_best(scores) ==
    Min({k \in DOMAIN scores : \A j \in DOMAIN scores : scores[k] >= scores[j]})

\* process.extractOne: <<>> for no choice, else <<index of the key, score>>
extract_best(scores) ==
    IF scores = <<>> THEN <<>> ELSE <<first_best(scores), scores[first_best(scores)]>>

extractOne(word, db) == extract_best(key_scores(word, db))

(***************************************************************************)
(* categorize_product                                                      *)
(***************************************************************************)
\* str.split(): the maximal runs of non-whitespace
RECURSIVE split_words(_)
split_words(s) ==
    LET l  == strip(s)
        ws == {k \in DOMAIN l : l[k] \in Whitespace}
    IN  IF l = <<>> THEN <<>>
        ELSE IF ws = {} THEN <<l>>
        ELSE <<SubSeq(l, 1, Min(ws) - 1)>>
                 \o split_words(SubSeq(l, Min(ws) + 1, Len(l)))

\* tier 1: the keys of PRODUCT_DATABASE that occur in the description
keys_in(product_lower, db) ==
    {k \in DOMAIN db : Contains(product_lower, db[k].key)}

\* tier 1 returning the last matching key of the table
exact_match_last(product_lower, db) ==
    IF keys_in(product_lower, db) = {} THEN <<>>
    ELSE <<db[Max(keys_in(product_lower, db))].data>>

\* tier 1: lines 283-285, <<>> or the triple of the first matching key
exact_match(product_lower, db) ==
    IF keys_in(product_lower, db) = {} THEN <<>>
    ELSE <<db[Min(keys_in(product_lower, db))].data>>

\* the body of "for word in words", best being [score, data] and extracted
\* the result of extractOne
fuzzy_word(best, word, db, extracted) ==
    IF Len(word) < 3 THEN best
    ELSE IF extracted # <<>> /\ extracted[2] > best.score
    THEN [score |-> extracted[2], data |-> <<db[extracted[1]].data>>]
    ELSE best

\* tier 2: lines 288-304, the best score and its triple over all the words
RECURSIVE fuzzy_best(_, _, _)
fuzzy_best(best, words, db) ==
    IF words = <<>> THEN best
    ELSE fuzzy_best(fuzzy_word(best, Head(words), db,
                               IF Len(Head(words)) < 3 THEN <<>>
                               ELSE extractOne(Head(words), db)),
                    Tail(words), db)

fuzzy_match(product_lower, db) ==
    fuzzy_best([score |-> 0, data |-> <<>>], split_words(product_lower), db)

\* "if best_match_score > 70 and best_match_data" with >= for >
fuzzy_accepts_from_70(best) == best.score >= 70 /\ best.data # <<>>

\* "if best_match_score > 70 and best_match_data"
fuzzy_accepts(best) == best.score > 70 /\ best.data # <<>>

\* tier 3: the <<category index, keyword index>> pairs that hit
keyword_hits(product_lower, kw) ==
    {h \in UNION {{<<c, k>> : k \in DOMAIN kw[c].keywords} : c \in DOMAIN kw} :
        Contains(product_lower, kw[h[1]].keywords[h[2]])}

\* tier 3: lines 311-313, <<>> or the first category with a keyword hit
keyword_match(product_lower, kw) ==
    IF keyword_hits(product_lower, kw) = {} THEN <<>>
    ELSE <<kw[Min({h[1] : h \in keyword_hits(product_lower, kw)})].category>>

Returned(value, tier) == [kind |-> "return", value |-> value, tier |-> tier]

Raised(error, tier) == [kind |-> error, value |-> <<>>, tier |-> tier]

\* lines 314-318: the defaults of the category, KeyError without an entry
keyword_result(category, tb) ==
    IF category \in DOMAIN tb.DEFAULT_EXPIRATION_DAYS
       /\ category \in DOMAIN tb.DEFAULT_LOCATIONS
    THEN Returned(<<category, tb.DEFAULT_EXPIRATION_DAYS[category],
                    tb.DEFAULT_LOCATIONS[category]>>, "keyword")
    ELSE Raised("KeyError", "keyword")

\* line 321
default_result == Returned(<<"other", 30, "pantry">>, "default")

\* lines 310-321
from_keyword(product_lower, tb, hit) ==
    IF hit # <<>> THEN keyword_result(hit[1], tb) ELSE default_result

\* lines 306-321
from_fuzzy(product_lower, tb, best) ==
    IF fuzzy_accepts(best) THEN Returned(best.data[1], "fuzzy")
    ELSE from_keyword(product_lower, tb,
                      keyword_match(product_lower, tb.CATEGORY_KEYWORDS))

\* lines 283-321
from_exact(product_lower, tb, exact) ==
    IF exact # <<>> THEN Returned(exact[1], "exact")
    ELSE from_fuzzy(product_lower, tb,
                    fuzzy_match(product_lower, tb.PRODUCT_DATABASE))

categorize_lower(product_lower, tb) ==
    from_exact(product_lower, tb, exact_match(product_lower, tb.PRODUCT_DATABASE))

\* categorize_product as a function of its argument and the tables
categorize_product(name, tb) == categorize_lower(lower(name), tb)

(***************************************************************************)
(* datetime: the record of a naive datetime.datetime and its arithmetic    *)
(***************************************************************************)
datetime(year, month, day) ==
    [year |-> year, month |-> month, day |-> day,
     hour |-> 0, minute |-> 0, second |-> 0, microsecond |-> 0]

is_leap(year) == year % 4 = 0 /\ (year % 100 # 0 \/ year % 400 = 0)

DAYS_IN_MONTH == <<31, 28, 31, 30, 31, 30, 31, 31, 30, 31, 30, 31>>

days_in_month(year, month) ==
    IF month = 2 /\ is_leap(year) THEN 29 ELSE DAYS_IN_MONTH[month]

\* the constructor accepts the fields, else ValueError
valid_date(year, month, day) ==
    /\ year \in 1..9999
    /\ month \in 1..12
    /\ day \in 1..days_in_month(year, month)

days_before_year(year) ==
    (year - 1) * 365 + (year - 1) \div 4 - (year - 1) \div 100
        + (year - 1) \div 400

RECURSIVE days_before_plain(_)
days_before_plain(month) ==
    IF month = 1 THEN 0
    ELSE days_before_plain(month - 1) + DAYS_IN_MONTH[month - 1]

days_before_month(year, month) ==
    days_before_plain(month) + (IF month > 2 /\ is_leap(year) THEN 1 ELSE 0)

\* date.toordinal
ymd2ord(year, month, day) ==
    days_before_year(year) + days_before_month(year, month) + day

MAXORDINAL == ymd2ord(9999, 12, 31)

\* the month and day of the n-th day (from 0) of a year
ord2md(year, n, leapyear, month) ==
    LET preceding == days_before_plain(month)
                        + (IF month > 2 /\ leapyear THEN 1 ELSE 0)
        m         == IF preceding > n THEN month - 1 ELSE month
        before    == days_before_plain(m) + (IF m > 2 /\ leapyear THEN 1 ELSE 0)
    IN  <<year, m, n - before + 1>>

\* the year of a day, from its position in the 400, 100, 4 and 1 year cycles
ord2y(n400, n100, n4, n1, n) ==
    IF n1 = 4 \/ n100 = 4
    THEN <<n400 * 400 + n100 * 100 + n4 * 4 + n1, 12, 31>>
    ELSE ord2md(n400 * 400 + 1 + n100 * 100 + n4 * 4 + n1, n,
                n1 = 3 /\ (n4 # 24 \/ n100 = 3), (n + 50) \div 32)

\* date.fromordinal: <<year, month, day>>
ord2ymd(ordinal) ==
    LET n   == ordinal - 1
        r4  == n % 146097
        r1  == r4 % 36524
        r0  == r1 % 1461
    IN  ord2y(n \div 146097, r4 \div 36524, r1 \div 1461, r0 \div 365, r0 % 365)

\* datetime + timedelta(days): <<>> for OverflowError
add_days(dt, days) ==
    LET ordinal == ymd2ord(dt.year, dt.month, dt.day) + days
        ymd     == ord2ymd(ordinal)
    IN  IF 0 < ordinal /\ ordinal <= MAXORDINAL
        THEN <<[dt EXCEPT !.year = ymd[1], !.month = ymd[2], !.day = ymd[3]]>>
        ELSE <<>>

\* "%0*d": the last width decimal digits of n
RECURSIVE zero_pad(_, _)
zero_pad(n, width) ==
    IF width = 0 THEN <<>>
    ELSE zero_pad(n \div 10, width - 1) \o <<DigitSeq[(n % 10) + 1]>>

\* datetime.isoformat
isoformat(dt) ==
    zero_pad(dt.year, 4) \o <<"-">> \o zero_pad(dt.month, 2) \o <<"-">>
        \o zero_pad(dt.day, 2) \o <<"T">> \o zero_pad(dt.hour, 2) \o <<":">>
        \o zero_pad(dt.minute, 2) \o <<":">> \o zero_pad(dt.second, 2)
        \o (IF dt.microsecond = 0 THEN <<>>
            ELSE <<".">> \o zero_pad(dt.microsecond, 6))

(***************************************************************************)
(* Metadata of the ticket.  Positions are Python indices: position k is    *)
(* in front of s[k + 1].                                                   *)
(***************************************************************************)
\* s[a:b]
Slice(s, a, b) == SubSeq(s, a + 1, b)

\* the position after the longest run of characters of C that starts at k
RunEnd(s, k, C) ==
    IF k >= Len(s) THEN k
    ELSE Min({j \in k..Len(s) : j = Len(s) \/ s[j + 1] \notin C})

\* n digits at k
DigitsAt(s, k, n) == k + n <= Len(s) /\ \A j \in 1..n : s[k + j] \in Digit

\* the character at k is c
CharAt(s, k, c) == k < Len(s) /\ s[k + 1] = c

\* the character at k is one of C
ClassAt(s, k, C) == k < Len(s) /\ s[k + 1] \in C

\* the dict of extract_store_name, in its order
stores ==
    <<
       [key |-> <<"m", "e", "r", "c", "a", "d", "o", "n", "a">>,
        name |-> <<"M", "e", "r", "c", "a", "d", "o", "n", "a">>],
       [key |-> <<"c", "a", "r", "r", "e", "f", "o", "u", "r">>,
        name |-> <<"C", "a", "r", "r", "e", "f", "o", "u", "r">>],
       [key |-> <<"d", "i", "a">>,
        name |-> <<"D", "i", "a">>],
       [key |-> <<"l", "i", "d", "l">>,
        name |-> <<"L", "i", "d", "l">>],
       [key |-> <<"a", "l", "d", "i">>,
        name |-> <<"A", "l", "d", "i">>],
       [key |-> <<"a", "l", "c", "a", "m", "p", "o">>,
        name |-> <<"A", "l", "c", "a", "m", "p", "o">>],
       [key |-> <<"e", "r", "o", "s", "k", "i">>,
        name |-> <<"E", "r", "o", "s", "k", "i">>],
       [key |-> <<"h", "i", "p", "e", "r", "c", "o", "r">>,
        name |-> <<"H", "i", "p", "e", "r", "c", "o", "r">>],
       [key |-> <<"e", "l", " ", "c", "o", "r", "t", "e">>,
        name |-> <<"E", "l", " ", "C", "o", "r", "t", "e", " ", "I", "n", "g", "l", "é", "s">>],
       [key |-> <<"a", "h", "o", "r", "r", "a">>,
        name |-> <<"A", "h", "o", "r", "r", "a", "m", "a", "s">>],
       [key |-> <<"c", "o", "n", "s", "u", "m">>,
        name |-> <<"C", "o", "n", "s", "u", "m">>]
    >>

Desconocido == <<"D", "e", "s", "c", "o", "n", "o", "c", "i", "d", "o">>

\* extract_store_name searching the text as written, not lowercased
extract_store_name_case_sensitive(t) ==
    LET hits == {k \in DOMAIN stores : Contains(t, stores[k].key)}
    IN  IF hits = {} THEN Desconocido ELSE stores[Min(hits)].name

\* lines 47-67
extract_store_name(t) ==
    LET hits == {k \in DOMAIN stores : Contains(lower(t), stores[k].key)}
    IN  IF hits = {} THEN Desconocido ELSE stores[Min(hits)].name

\* the class [A-ZÁÉÍÓÚÑa-zñáéíóú\s\]]
CityChar == Alpha \cup Whitespace \cup {"]"}

\* \d{5}\s+([...]+) matches at k: five digits, whitespace, and a run of the
\* class that leaves a character for the group
city_at(s, k) ==
    /\ DigitsAt(s, k, 5)
    /\ ClassAt(s, k + 5, Whitespace)
    /\ RunEnd(s, k + 5, CityChar) >= k + 7

\* group(1) of the match at k: the run after the whitespace, or the last
\* whitespace when the run is whitespace only
city_group(s, k, ws, end) ==
    IF ws < end THEN Slice(s, ws, end) ELSE Slice(s, end - 1, end)

city_of(s, k) ==
    replace(replace(strip(city_group(s, k, SkipWs(s, k + 5),
                                     RunEnd(s, k + 5, CityChar))),
                    "]", <<>>), "[", <<>>)

\* lines 69-78
extract_location(t) ==
    LET hits == {k \in 0..Len(t) : city_at(t, k)}
    IN  IF hits = {} THEN Desconocido ELSE city_of(t, Min(hits))

\* (\d{2})sep(\d{2})sep(\d{4}) matches at k
date_at(s, k, sep) ==
    /\ DigitsAt(s, k, 2)
    /\ CharAt(s, k + 2, sep)
    /\ DigitsAt(s, k + 3, 2)
    /\ CharAt(s, k + 5, sep)
    /\ DigitsAt(s, k + 6, 4)

\* the datetime of the match at k, <<>> for ValueError
date_of(s, k) ==
    LET day   == IntOf(Slice(s, k, k + 2))
        month == IntOf(Slice(s, k + 3, k + 5))
        year  == IntOf(Slice(s, k + 6, k + 10))
    IN  IF valid_date(year, month, day) THEN <<datetime(year, month, day)>>
        ELSE <<>>

\* one round of "for pattern in patterns": <<>> or the date returned
date_by(s, sep) ==
    LET hits == {k \in 0..Len(s) : date_at(s, k, sep)}
    IN  IF hits = {} THEN <<>> ELSE date_of(s, Min(hits))

\* date_found with the patterns in the other order
date_found_dash_first(slash, dash) == IF dash # <<>> THEN dash ELSE slash

\* the first pattern that returns, <<>> when datetime.now() is
date_found(slash, dash) == IF slash # <<>> THEN slash ELSE dash

\* the text carries a date extract_purchase_date returns
date_in(t) == date_found(date_by(t, "/"), date_by(t, "-"))

\* extract_purchase_date always falling back to the clock
extract_purchase_date_now(t, now) == now

\* lines 80-95, now being the value of datetime.now()
extract_purchase_date(t, now) ==
    IF date_in(t) # <<>> THEN date_in(t)[1] ELSE now

\* the class [\d,\.]
NumChar == Digit \cup {",", "."}

\* float(group.replace(',', '.')): <<>> for ValueError
float_of(group) ==
    IF IsFloatLiteral(replace(group, ",", <<".">>))
    THEN <<FloatOf(replace(group, ",", <<".">>))>>
    ELSE <<>>

\* the position after an optional character of C at k
Opt(s, k, C) == IF ClassAt(s, k, C) THEN k + 1 ELSE k

\* where the group of [tT][oO][tT][aA][lL]\s*\(?[€eE]?\)?\s*([\d,\.]+)
\* starts for a label at k
total_group(s, k) ==
    SkipWs(s, Opt(s, Opt(s, Opt(s, SkipWs(s, k + 5), {"("}),
                         {"€", "e", "E"}), {")"}))

total_at(s, k) ==
    /\ LitAt(s, k, <<"t", "o", "t", "a", "l">>)
    /\ ClassAt(s, total_group(s, k), NumChar)

\* where the group of [iI][mM][pP][oO][rR][tT][eE][:;]?\s*([\d,\.]+)\s*€
\* starts for a label at k
importe_group(s, k) == SkipWs(s, Opt(s, k + 7, {":", ";"}))

importe_at(s, k) ==
    /\ LitAt(s, k, <<"i", "m", "p", "o", "r", "t", "e">>)
    /\ ClassAt(s, importe_group(s, k), NumChar)
    /\ CharAt(s, SkipWs(s, RunEnd(s, importe_group(s, k), NumChar)), "€")

\* the longest run of [\d,\.] at k
NumRun(s, k) == Slice(s, k, RunEnd(s, k, NumChar))

\* group(1) of re.search for the first pattern, <<>> without a match
total_search(s) ==
    LET hits == {k \in 0..Len(s) : total_at(s, k)}
    IN  IF hits = {} THEN <<>> ELSE <<NumRun(s, total_group(s, Min(hits)))>>

\* group(1) of re.search for the second pattern, <<>> without a match
importe_search(s) ==
    LET hits == {k \in 0..Len(s) : importe_at(s, k)}
    IN  IF hits = {} THEN <<>> ELSE <<NumRun(s, importe_group(s, Min(hits)))>>

\* total_by without the test 1.0 < total < 10000
total_by_unbounded(match) ==
    IF match = <<>> THEN <<>> ELSE float_of(match[1])

\* the body of "for pattern in total_patterns": <<>> or the total it sets
total_by(match) ==
    IF match = <<>> \/ float_of(match[1]) = <<>> THEN <<>>
    ELSE IF float_of(match[1])[1] > Scale /\ float_of(match[1])[1] < 10000 * Scale
         THEN float_of(match[1])
         ELSE <<>>

total_found(first, second) ==
    IF first # <<>> THEN first[1] ELSE IF second # <<>> THEN second[1] ELSE 0

\* lines 105-120
extract_total(t) ==
    total_found(total_by(total_search(t)), total_by(importe_search(t)))

\* (\d+)%\s+([\d,\.]+)\s+([\d,\.]+) at k, given the ends of its parts:
\* the number, the second group, the third group
iva_ends(s, k) ==
    LET n  == RunEnd(s, k, Digit)
        b  == SkipWs(s, n + 1)
        be == RunEnd(s, b, NumChar)
        c  == SkipWs(s, be)
    IN  <<n, b, be, c, RunEnd(s, c, NumChar)>>

iva_match(s, k, e) ==
    /\ e[1] > k
    /\ CharAt(s, e[1], "%")
    /\ e[2] > e[1] + 1
    /\ e[3] > e[2]
    /\ e[4] > e[3]
    /\ e[5] > e[4]

iva_at(s, k) == iva_match(s, k, iva_ends(s, k))

\* lines 125-138: what one match appends to iva_details
iva_entry(tasa, base, cuota) ==
    IF base # <<>> /\ cuota # <<>> /\ base[1] > 0 /\ cuota[1] > 0
    THEN <<[tasa |-> tasa \o <<"%">>, base |-> base[1], cuota |-> cuota[1]]>>
    ELSE <<>>

iva_of(s, k, e) ==
    iva_entry(Slice(s, k, e[1]), float_of(Slice(s, e[2], e[3])),
              float_of(Slice(s, e[4], e[5])))

\* re.finditer from position k on
RECURSIVE iva_from(_, _)
iva_from(s, k) ==
    LET hits == {j \in k..Len(s) : iva_at(s, j)}
    IN  IF hits = {} THEN <<>>
        ELSE iva_of(s, Min(hits), iva_ends(s, Min(hits)))
                 \o iva_from(s, iva_ends(s, Min(hits))[5])

\* lines 97-140
extract_totals_and_metadata(t) ==
    [total |-> extract_total(t), iva_details |-> iva_from(t, 0), subtotal |-> 0]

(***************************************************************************)
(* process_ticket: enrichment of the line items                            *)
(***************************************************************************)
\* the upper-case letter of each lower-case letter
UpperOf ==
    [c \in Range(LowerSeq) |->
        UpperSeq[CHOOSE k \in DOMAIN LowerSeq : LowerSeq[k] = c]]

ToUpper(c) == IF c \in Range(LowerSeq) THEN UpperOf[c] ELSE c

\* str.title: a letter after a letter is lowered, any other letter is raised
title(s) ==
    [k \in DOMAIN s |->
        IF k > 1 /\ isalpha(s[k - 1]) THEN ToLower(s[k]) ELSE ToUpper(s[k])]

\* the alternatives of (kg|g|l|ml|gr), in the order of the pattern
unit_alternatives ==
    << [chars |-> <<"k", "g">>, unit |-> "kg"],
       [chars |-> <<"g">>, unit |-> "g"],
       [chars |-> <<"l">>, unit |-> "l"],
       [chars |-> <<"m", "l">>, unit |-> "ml"],
       [chars |-> <<"g", "r">>, unit |-> "gr"] >>

\* s has chars at position k
StartsAt(s, k, chars) ==
    /\ k + Len(chars) <= Len(s)
    /\ \A j \in 1..Len(chars) : s[k + j] = chars[j]

\* the alternatives that match at k
units_at(s, k) ==
    {a \in DOMAIN unit_alternatives : StartsAt(s, k, unit_alternatives[a].chars)}

\* (\d+)\s*(kg|g|l|ml|gr) matches at k
weight_at(s, k) ==
    /\ ClassAt(s, k, Digit)
    /\ units_at(s, SkipWs(s, RunEnd(s, k, Digit))) # {}

\* the groups of the match at k whose digits end at n
weight_groups(s, k, n) ==
    [number |-> Slice(s, k, n),
     unit   |-> unit_alternatives[Min(units_at(s, SkipWs(s, n)))].unit]

\* re.search(r'(\d+)\s*(kg|g|l|ml|gr)', s): <<>> or the groups
weight_match(s) ==
    LET hits == {k \in 0..Len(s) : weight_at(s, k)}
    IN  IF hits = {} THEN <<>>
        ELSE <<weight_groups(s, Min(hits), RunEnd(s, Min(hits), Digit))>>

\* float() of an int or of a run of digits
to_float(n) == n * Scale

\* lines 364-375 with the count of the item ignored
quantity_unit_without_count(m, quantity_items) ==
    IF m # <<>>
    THEN [quantity |-> to_float(IntOf(m[1].number)),
          unit |-> IF m[1].unit = "gr" THEN "g" ELSE m[1].unit]
    ELSE [quantity |-> to_float(1), unit |-> "units"]

\* lines 364-375, m being weight_match
quantity_unit(m, quantity_items) ==
    IF m # <<>>
    THEN [quantity |-> to_float(IntOf(m[1].number)),
          unit |-> IF m[1].unit = "gr" THEN "g" ELSE m[1].unit]
    ELSE IF quantity_items > 1
         THEN [quantity |-> to_float(quantity_items), unit |-> "units"]
         ELSE [quantity |-> to_float(1), unit |-> "units"]

\* line 362 with the time of day dropped
expiration_date_at_midnight(purchase_date, exp_days) ==
    add_days(datetime(purchase_date.year, purchase_date.month,
                      purchase_date.day), exp_days)

\* line 362: <<>> for OverflowError
expiration_date(purchase_date, exp_days) == add_days(purchase_date, exp_days)

Importado_de_ticket == <<"I", "m", "p", "o", "r", "t", "a", "d", "o", " ", "d", "e", " ", "t", "i", "c", "k", "e", "t", " ">>

\* lines 377-388
processed_product(product, tk, triple, expiration, qu) ==
    [name |-> title(product.description),
     category |-> triple[1],
     store |-> tk.store,
     price |-> product.price,
     quantity |-> qu.quantity,
     unit |-> qu.unit,
     location |-> triple[3],
     purchase_date |-> isoformat(tk.purchase_date),
     expiration_date |-> isoformat(expiration),
     notes |-> Importado_de_ticket \o tk.store \o <<" ", "-", " ">>
                   \o tk.location]

\* lines 361-388 once the product is classified
enrich_classified(product, tk, triple, expiration) ==
    IF expiration = <<>> THEN Raised("OverflowError", "enrich")
    ELSE Returned(
             processed_product(product, tk, triple, expiration[1],
                 quantity_unit(weight_match(lower(product.description)),
                               product.quantity)),
             "enrich")

\* lines 361-362
enrich_with(product, tk, category) ==
    IF category.kind # "return" THEN category
    ELSE enrich_classified(product, tk, category.value,
                           expiration_date(tk.purchase_date, category.value[2]))

\* the body of the loop of lines 355-388 for one line item
enrich(product, tk, tb) ==
    enrich_with(product, tk, categorize_product(product.description, tb))

\* lines 332-335
ticket_metadata(t, now) ==
    [store |-> extract_store_name(t),
     location |-> extract_location(t),
     purchase_date |-> extract_purchase_date(t, now),
     metadata |-> extract_totals_and_metadata(t)]

\* ticket_result with the products last first
ticket_result_newest_first(t, tk, processed) ==
    [store |-> tk.store,
     location |-> tk.location,
     purchase_date |-> isoformat(tk.purchase_date),
     total_amount |-> tk.metadata.total,
     iva_details |-> tk.metadata.iva_details,
     total_products |-> Len(processed),
     products |-> [k \in DOMAIN processed |->
                      processed[Len(processed) + 1 - k]],
     raw_text |-> t]

\* lines 398-407
ticket_result(t, tk, processed) ==
    [store |-> tk.store,
     location |-> tk.location,
     purchase_date |-> isoformat(tk.purchase_date),
     total_amount |-> tk.metadata.total,
     iva_details |-> tk.metadata.iva_details,
     total_products |-> Len(processed),
     products |-> processed,
     raw_text |-> t]

\* lines 35-45: the text, or the exception wrapped as "Error en OCR"
extract_text_from_image(outcome) ==
    IF outcome.kind = "return" THEN outcome ELSE Raised("Error en OCR", "ocr")

\* db_product with the rows given to the first user
db_product_of_first_user(user, product_data) ==
    [user_id |-> 1,
     name |-> product_data.name,
     category |-> product_data.category,
     store |-> product_data.store,
     price |-> product_data.price,
     quantity |-> product_data.quantity,
     unit |-> product_data.unit,
     location |-> product_data.location,
     purchase_date |-> product_data.purchase_date,
     expiration_date |-> product_data.expiration_date,
     notes |-> product_data.notes,
     status |-> "active"]

\* ticket_scan.py lines 53-66
db_product(user, product_data) ==
    [user_id |-> user,
     name |-> product_data.name,
     category |-> product_data.category,
     store |-> product_data.store,
     price |-> product_data.price,
     quantity |-> product_data.quantity,
     unit |-> product_data.unit,
     location |-> product_data.location,
     purchase_date |-> product_data.purchase_date,
     expiration_date |-> product_data.expiration_date,
     notes |-> product_data.notes,
     status |-> "active"]

(***************************************************************************)
(* The reference tables and the descriptions the classifier is run on.     *)
(* app/utils/product_database.py is not part of the sources at hand: the   *)
(* tables below follow the shapes the specification gives them.            *)
(***************************************************************************)
K_leche_de_soja ==
    <<"l", "e", "c", "h", "e", " ", "d", "e", " ", "s", "o", "j", "a">>

K_leche == <<"l", "e", "c", "h", "e">>

K_pan == <<"p", "a", "n">>

K_zanahorias == <<"z", "a", "n", "a", "h", "o", "r", "i", "a", "s">>

W_yogur == <<"y", "o", "g", "u", "r">>

W_queso == <<"q", "u", "e", "s", "o">>

W_pollo == <<"p", "o", "l", "l", "o">>

E_leche_de_soja ==
    [key |-> K_leche_de_soja, data |-> <<"beverages", 180, "pantry">>]

E_leche == [key |-> K_leche, data |-> <<"dairy", 7, "fridge">>]

E_pan == [key |-> K_pan, data |-> <<"bakery", 3, "pantry">>]

E_zanahorias == [key |-> K_zanahorias, data |-> <<"vegetables", 14, "fridge">>]

Keywords ==
    << [category |-> "dairy", keywords |-> <<W_yogur, W_queso>>],
       [category |-> "meat", keywords |-> <<W_pollo>>] >>

\* the most specific keys first
TablesSpecific ==
    [PRODUCT_DATABASE |-> <<E_leche_de_soja, E_leche, E_pan, E_zanahorias>>,
     CATEGORY_KEYWORDS |-> Keywords,
     DEFAULT_EXPIRATION_DAYS |-> ("dairy" :> 10) @@ ("meat" :> 4),
     DEFAULT_LOCATIONS |-> ("dairy" :> "fridge") @@ ("meat" :> "freezer")]

\* the same keys in another order
TablesGeneral ==
    [TablesSpecific EXCEPT
        !.PRODUCT_DATABASE = <<E_zanahorias, E_pan, E_leche, E_leche_de_soja>>]

\* a keyword category without default entries
TablesNoDefault ==
    [TablesSpecific EXCEPT
        !.DEFAULT_EXPIRATION_DAYS = ("dairy" :> 10),
        !.DEFAULT_LOCATIONS = ("dairy" :> "fridge")]

\* no product keys
TablesNoKeys == [TablesSpecific EXCEPT !.PRODUCT_DATABASE = <<>>]

TableChoices == {TablesSpecific, TablesGeneral, TablesNoDefault, TablesNoKeys}

D_leche_entera ==
    <<"L", "e", "c", "h", "e", " ", "E", "n", "t", "e", "r", "a", " ",
      "P", "a", "s", "c", "u", "a", "l">>

D_leche_soja ==
    <<"L", "e", "c", "h", "e", " ", "d", "e", " ", "S", "o", "j", "a">>

D_lecha_yogur ==
    <<"L", "e", "c", "h", "a", " ", "Y", "o", "g", "u", "r">>

D_yogur ==
    <<"Y", "o", "g", "u", "r", " ", "N", "a", "t", "u", "r", "a", "l">>

D_detergente ==
    <<"D", "e", "t", "e", "r", "g", "e", "n", "t", "e">>

D_pollo ==
    <<"P", "o", "l", "l", "o", " ", "A", "s", "a", "d", "o">>

D_zanahorete ==
    <<"Z", "a", "n", "a", "h", "o", "r", "e", "t", "e", " ",
      "Y", "o", "g", "u", "r">>

D_empanada == <<"E", "m", "p", "a", "n", "a", "d", "a">>

D_te == <<"T", "e">>

D_pan_gr == <<"P", "a", "n", " ", "5", "0", "0", " ", "g", "r">>

D_agua == <<"A", "g", "u", "a", " ", "2", " ", "L">>

D_arroz == <<"A", "r", "r", "o", "z", " ", "1", "k", "g">>

Descriptions ==
    {D_leche_entera, D_leche_soja, D_lecha_yogur, D_yogur, D_detergente,
     D_pollo, D_zanahorete, D_empanada, D_te, D_pan_gr, D_agua, D_arroz}

(***************************************************************************)
(* The texts the segmenter is run on                                       *)
(***************************************************************************)
MaxLines == 3

L_header    == <<"D", "E", "S", "C", "R", "I", "P", "C", "I", "Ó", "N">>
L_total     == <<"T", "O", "T", "A", "L", " ", "3", ".", "0", "0">>
L_pasta     == <<"P", "a", "s", "t", "a", " ", "B", "a", "r", "i", "l", "l", "a">>
L_two_leche == <<"2", " ", "L", "e", "c", "h", "e">>
L_two       == <<"2">>
L_150       == <<"1", ".", "5", "0">>
L_300       == <<"3", ".", "0", "0">>
L_15000     == <<"1", "5", "0", "0", "0">>
L_blank     == <<>>

Vocabulary ==
    {L_header, L_total, L_pasta, L_two_leche, L_two, L_150, L_300, L_15000,
     L_blank}

\* the scenario of the pasta receipt: the quantity on a line of its own
ScenarioPasta ==
    join(<<"\n">>, <<L_header, L_pasta, L_two, L_150, L_300, L_total>>)

\* an item before the header and an item after the footer
ScenarioOutside ==
    join(<<"\n">>, <<L_pasta, L_150, L_header, L_two_leche, L_150, L_300,
                     L_total, L_pasta, L_300>>)

\* a total line above the header
ScenarioTotalFirst ==
    join(<<"\n">>, <<L_total, L_header, L_pasta, L_150>>)

\* a quantity whose line total is the footer, and one with an out-of-range line
ScenarioFooter ==
    join(<<"\n">>, <<L_header, L_two_leche, L_15000, L_150, L_total, L_300>>)

L_zero_leche == <<"0", " ", "L", "e", "c", "h", "e">>

\* an item whose description starts with the integer 0
ScenarioZero == join(<<"\n">>, <<L_header, L_zero_leche, L_150, L_total>>)

\* a unit price and a line total for a quantity of 2, and the same two prices
\* after a description without a quantity
ScenarioUnits ==
    join(<<"\n">>, <<L_header, L_two_leche, L_150, L_300, L_pasta, L_150,
                     L_300, L_total>>)

\* four description-lines before a price
ScenarioLong ==
    join(<<"\n">>, <<L_header, L_pasta, L_two_leche, L_pasta, L_two_leche,
                     L_150, L_pasta, L_300, L_total>>)

\* a price before any description, and a noise line between a description
\* and its price
ScenarioSkips ==
    join(<<"\n">>, <<L_header, L_150, L_pasta, L_15000, L_150, L_total>>)

Scenarios ==
    {ScenarioPasta, ScenarioOutside, ScenarioTotalFirst, ScenarioFooter,
     ScenarioZero, ScenarioSkips, ScenarioLong, ScenarioUnits}

Texts ==
    {join(<<"\n">>, ls) : ls \in UNION {[1..n -> Vocabulary] : n \in 1..MaxLines}}
        \cup Scenarios

(***************************************************************************)
(* SpecSeg: one call of parse_product_lines, iteration by iteration        *)
(***************************************************************************)
walk == [i |-> i, description_parts |-> description_parts,
         products |-> products, part_src |-> part_src, item_src |-> item_src]

cur_line == strip(lines[i + 1])

SetWalk(w) ==
    /\ i' = w.i
    /\ description_parts' = w.description_parts
    /\ products' = w.products
    /\ part_src' = w.part_src
    /\ item_src' = w.item_src

\* no request being served
\* no call of generate_shopping_list_from_menu in progress
MenuIdle ==
    /\ weekly_menus = <<>>
    /\ menus = <<>>
    /\ menu_pos = 0
    /\ shopping_items = <<>>
    /\ reports = <<>>

ScanIdle ==
    /\ request = <<>>
    /\ tmp_exists = FALSE
    /\ reader_inits = 0
    /\ previous = <<>>
    /\ ticket = <<>>
    /\ processed_products = <<>>
    /\ result = <<>>
    /\ session = <<>>
    /\ inventory = <<>>
    /\ response = <<>>
    /\ scans = 0
    /\ trace = <<>>

\* no call of categorize_product in progress
CatIdle ==
    /\ product_name = <<>>
    /\ tables = TablesSpecific
    /\ best_match_score = 0
    /\ best_match_data = <<>>
    /\ cat_result = <<>>

InitSeg ==
    /\ MenuIdle
    /\ pc = "parse"
    /\ CatIdle
    /\ ScanIdle
    /\ text \in Texts
    /\ lines = <<>>
    /\ start_idx = 0
    /\ end_idx = 0
    /\ i = 0
    /\ description_parts = <<>>
    /\ products = <<>>
    /\ part_src = <<>>
    /\ item_src = <<>>

\* lines 188-208: split the text and find the window
FindWindow ==
    /\ pc = "parse"
    /\ pc' = "walk"
    /\ lines' = split(text, "\n")
    /\ start_idx' = find_start(lines')
    /\ end_idx' = find_end(lines', start_idx')
    /\ SetWalk(WalkInit(start_idx'))
    /\ UNCHANGED <<menuVars, text, catVars, scanVars>>

InLoop == pc = "walk" /\ i < end_idx

Iterate ==
    /\ SetWalk(walk_step(lines, end_idx, walk))
    /\ UNCHANGED <<menuVars, pc, text, lines, start_idx, end_idx, catVars, scanVars>>

\* "if not line"
SkipBlank == InLoop /\ cur_line = <<>> /\ Iterate

\* a price-line with a non-empty buffer
EmitItem ==
    /\ InLoop
    /\ cur_line # <<>>
    /\ is_price(cur_line) # <<>>
    /\ description_parts # <<>>
    /\ Iterate

\* a price-line with an empty buffer
SkipPrice ==
    /\ InLoop
    /\ cur_line # <<>>
    /\ is_price(cur_line) # <<>>
    /\ description_parts = <<>>
    /\ Iterate

\* a description-line
BufferDescription ==
    /\ InLoop
    /\ cur_line # <<>>
    /\ is_price(cur_line) = <<>>
    /\ is_description(cur_line)
    /\ Iterate

\* neither
SkipNoise ==
    /\ InLoop
    /\ cur_line # <<>>
    /\ is_price(cur_line) = <<>>
    /\ ~is_description(cur_line)
    /\ Iterate

\* "return products"
ReturnProducts ==
    /\ pc = "walk"
    /\ i >= end_idx
    /\ pc' = "done"
    /\ UNCHANGED <<menuVars, segVars, catVars, scanVars>>

NextSeg ==
    \/ FindWindow
    \/ SkipBlank
    \/ EmitItem
    \/ SkipPrice
    \/ BufferDescription
    \/ SkipNoise
    \/ ReturnProducts

SpecSeg == InitSeg /\ [][NextSeg]_vars

(***************************************************************************)
(* SpecCat: one call of categorize_product, tier by tier                   *)
(***************************************************************************)
\* no call of parse_product_lines in progress
SegIdle ==
    /\ text = <<>>
    /\ lines = <<>>
    /\ start_idx = 0
    /\ end_idx = 0
    /\ i = 0
    /\ description_parts = <<>>
    /\ products = <<>>
    /\ part_src = <<>>
    /\ item_src = <<>>

InitCat ==
    /\ MenuIdle
    /\ pc = "exact"
    /\ SegIdle
    /\ ScanIdle
    /\ product_name \in Descriptions
    /\ tables \in TableChoices
    /\ best_match_score = 0
    /\ best_match_data = <<>>
    /\ cat_result = <<>>

product_lower == lower(product_name)

\* the step after the first tier, given its outcome
ExactStep(exact) ==
    /\ pc' = IF exact # <<>> THEN "returned" ELSE "fuzzy"
    /\ cat_result' = IF exact # <<>> THEN Returned(exact[1], "exact") ELSE <<>>
    /\ UNCHANGED <<menuVars, segVars, scanVars, product_name, tables, best_match_score,
                   best_match_data>>

\* lines 283-285: a key of the table occurs in the description
ExactReturn ==
    /\ pc = "exact"
    /\ exact_match(product_lower, tables.PRODUCT_DATABASE) # <<>>
    /\ ExactStep(exact_match(product_lower, tables.PRODUCT_DATABASE))

\* lines 283-285: no key occurs in the description
ExactMiss ==
    /\ pc = "exact"
    /\ exact_match(product_lower, tables.PRODUCT_DATABASE) = <<>>
    /\ ExactStep(<<>>)

\* the step after the second tier, given the best match
FuzzyStep(best) ==
    /\ best_match_score' = best.score
    /\ best_match_data' = best.data
    /\ pc' = IF fuzzy_accepts(best) THEN "returned" ELSE "keyword"
    /\ cat_result' = IF fuzzy_accepts(best)
                     THEN Returned(best.data[1], "fuzzy") ELSE <<>>
    /\ UNCHANGED <<menuVars, segVars, scanVars, product_name, tables>>

\* lines 288-308: the best fuzzy match is accepted
FuzzyReturn ==
    /\ pc = "fuzzy"
    /\ fuzzy_accepts(fuzzy_match(product_lower, tables.PRODUCT_DATABASE))
    /\ FuzzyStep(fuzzy_match(product_lower, tables.PRODUCT_DATABASE))

\* lines 288-308: it is not
FuzzyMiss ==
    /\ pc = "fuzzy"
    /\ ~fuzzy_accepts(fuzzy_match(product_lower, tables.PRODUCT_DATABASE))
    /\ FuzzyStep(fuzzy_match(product_lower, tables.PRODUCT_DATABASE))

\* the step of the third tier and the default, given the keyword hit
KeywordStep(res) ==
    /\ cat_result' = res
    /\ pc' = IF res.kind = "return" THEN "returned" ELSE "raised"
    /\ UNCHANGED <<menuVars, segVars, scanVars, product_name, tables, best_match_score,
                   best_match_data>>

KeywordOutcome ==
    from_keyword(product_lower, tables,
                 keyword_match(product_lower, tables.CATEGORY_KEYWORDS))

\* lines 311-318: a keyword occurs, the defaults of its category are returned
KeywordReturn ==
    /\ pc = "keyword"
    /\ KeywordOutcome.kind = "return"
    /\ KeywordOutcome.tier = "keyword"
    /\ KeywordStep(KeywordOutcome)

\* lines 316-317: a keyword occurs, the category has no default entry
KeywordRaise ==
    /\ pc = "keyword"
    /\ KeywordOutcome.kind # "return"
    /\ KeywordStep(KeywordOutcome)

\* line 321
DefaultReturn ==
    /\ pc = "keyword"
    /\ KeywordOutcome.tier = "default"
    /\ KeywordStep(KeywordOutcome)

NextCat ==
    \/ ExactReturn
    \/ ExactMiss
    \/ FuzzyReturn
    \/ FuzzyMiss
    \/ KeywordReturn
    \/ KeywordRaise
    \/ DefaultReturn

SpecCat == InitCat /\ [][NextCat]_vars


(***************************************************************************)
(* SpecScan: requests to POST /scan served one after the other             *)
(***************************************************************************)
\* requests received at most
MaxScans == 2

L_mercadona == <<"M", "E", "R", "C", "A", "D", "O", "N", "A">>

L_city == <<"2", "8", "0", "0", "1", " ", "M", "a", "d", "r", "i", "d">>

L_date_slash == <<"2", "8", "/", "0", "2", "/", "2", "0", "2", "4">>

L_date_dash == <<"3", "1", "-", "1", "2", "-", "2", "0", "2", "3">>

\* store, city, date, two items, the second with count, unit price and weight
TicketLeche ==
    join(<<"\n">>, <<L_mercadona, L_city, L_date_slash, L_header,
                     D_leche_entera, L_150, <<"2", " ">> \o D_pan_gr, L_150,
                     L_300, L_total>>)

\* no store, no date, an item with a count and an item with a volume
TicketYogur ==
    join(<<"\n">>, <<L_header, <<"3", " ">> \o D_yogur, L_150, D_agua, L_300,
                     L_total>>)

\* a date with dashes, a keyword item and an item with a weight
TicketPollo ==
    join(<<"\n">>, <<L_date_dash, L_header, D_pollo, L_300, D_arroz, L_150,
                     L_total>>)

L_date_last == <<"3", "1", "/", "1", "2", "/", "9", "9", "9", "9">>

\* a purchase on the last day datetime can represent
TicketLastDay ==
    join(<<"\n">>, <<L_date_last, L_header, D_detergente, L_150, L_total>>)

\* what the reader can return for an image
TicketTexts == {TicketLeche, TicketYogur, TicketPollo, TicketLastDay, <<>>}

\* values of datetime.now()
Clock ==
    {[year |-> 2024, month |-> 2, day |-> 27, hour |-> 18, minute |-> 30,
      second |-> 15, microsecond |-> 250],
     [year |-> 2023, month |-> 12, day |-> 31, hour |-> 23, minute |-> 59,
      second |-> 59, microsecond |-> 0]}

Users == {1, 2}

\* what the reader does with the image: a text, or an exception of the
\* Reader constructor or of readtext
OcrOutcomes ==
    {Returned(t, "ocr") : t \in TicketTexts}
        \cup {Raised("RuntimeError", "Reader"), Raised("RuntimeError", "readtext")}

Requests ==
    [content_type : {"image/jpeg", "text/plain", "missing"},
     auto_import : BOOLEAN,
     user : Users]

\* the state of a call of scan_ticket before its first statement
Received(req) ==
    /\ request' = req
    /\ pc' = "request"
    /\ text' = <<>>
    /\ products' = <<>>
    /\ ticket' = <<>>
    /\ processed_products' = <<>>
    /\ result' = <<>>
    /\ session' = <<>>
    /\ response' = <<>>
    /\ trace' = <<>>
    /\ previous' = IF result = <<>> THEN previous ELSE result

InitScan ==
    /\ MenuIdle
    /\ pc = "request"
    /\ SegIdle
    /\ product_name = <<>>
    /\ tables \in {TablesSpecific, TablesNoDefault}
    /\ best_match_score = 0
    /\ best_match_data = <<>>
    /\ cat_result = <<>>
    /\ request \in Requests
    /\ tmp_exists = FALSE
    /\ reader_inits = 0
    /\ previous = <<>>
    /\ ticket = <<>>
    /\ processed_products = <<>>
    /\ result = <<>>
    /\ session = <<>>
    /\ inventory = <<>>
    /\ response = <<>>
    /\ scans = 1
    /\ trace = <<>>

Step(name) == trace' = Append(trace, name)

\* lines 35-36: the upload is not an image
RejectUpload ==
    /\ pc = "request"
    /\ request.content_type = "text/plain"
    /\ response' = [status |-> 400, body |-> <<>>]
    /\ pc' = "answered"
    /\ Step("reject")
    /\ UNCHANGED <<menuVars, segVars, catVars, request, tmp_exists, reader_inits, ticket,
                   processed_products, result, session, inventory, scans,
                   previous>>

\* line 35: the part carries no content type, None.startswith raises
\* outside the try block
MissingContentType ==
    /\ pc = "request"
    /\ request.content_type = "missing"
    /\ response' = [status |-> 500, body |-> <<>>]
    /\ pc' = "answered"
    /\ Step("attribute_error")
    /\ UNCHANGED <<menuVars, segVars, catVars, request, tmp_exists, reader_inits, ticket,
                   processed_products, result, session, inventory, scans,
                   previous>>

\* lines 39-42
SaveUpload ==
    /\ pc = "request"
    /\ request.content_type = "image/jpeg"
    /\ tmp_exists' = TRUE
    /\ pc' = "scan"
    /\ Step("save")
    /\ UNCHANGED <<menuVars, segVars, catVars, request, reader_inits, ticket,
                   processed_products, result, session, inventory, response,
                   scans, previous>>

\* line 329 inside a handler that goes on without the text
after_ocr_continue(extracted) == "metadata"

\* line 329: process_ticket goes on with the text, an exception of the
\* extractor leaves it for the handler of scan_ticket
after_ocr(extracted) ==
    IF extracted.kind = "return" THEN "metadata" ELSE "except"

\* the Reader objects built once a new TicketScannerService has met outcome
readers_after(outcome) ==
    IF outcome.kind # "return" /\ outcome.tier = "Reader" THEN reader_inits
    ELSE reader_inits + 1

\* lines 46-47 and 329 given what extract_text_from_image does
OcrStep(outcome, extracted) ==
    /\ reader_inits' = readers_after(outcome)
    /\ text' = IF extracted.kind = "return" THEN extracted.value ELSE <<>>
    /\ pc' = after_ocr(extracted)
    /\ Step(IF extracted.kind = "return" THEN "ocr" ELSE "ocr_raised")
    /\ UNCHANGED <<menuVars, catVars, segRest, products, request, tmp_exists, ticket,
                   processed_products, result, session, inventory, response,
                   scans, previous>>

\* lines 46-47, 329: a new service, a new reader, the text of the image
OcrReturns ==
    /\ pc = "scan"
    /\ \E outcome \in OcrOutcomes :
        /\ outcome.kind = "return"
        /\ OcrStep(outcome, extract_text_from_image(outcome))

\* lines 46-47, 329, 44-45: the reader fails
OcrRaises ==
    /\ pc = "scan"
    /\ \E outcome \in OcrOutcomes :
        /\ outcome.kind # "return"
        /\ OcrStep(outcome, extract_text_from_image(outcome))

\* lines 332-335
ExtractMetadata ==
    /\ pc = "metadata"
    /\ \E now \in Clock : ticket' = ticket_metadata(text, now)
    /\ pc' = "segment"
    /\ Step("metadata")
    /\ UNCHANGED <<menuVars, segVars, catVars, request, tmp_exists, reader_inits,
                   processed_products, result, session, inventory, response,
                   scans, previous>>

\* line 348
Segment ==
    /\ pc = "segment"
    /\ products' = parse_product_lines(text)
    /\ pc' = "enrich"
    /\ Step("segment")
    /\ UNCHANGED <<menuVars, catVars, segRest, text, request, tmp_exists, reader_inits,
                   ticket, processed_products, result, session, inventory,
                   response, scans, previous>>

\* the line item the loop of lines 355-388 is at
next_product == products[Len(processed_products) + 1]

\* the tables with every classified product added to PRODUCT_DATABASE
tables_after_learning(tb, enriched) ==
    IF enriched.kind = "return"
    THEN [tb EXCEPT !.PRODUCT_DATABASE =
                Append(@, [key |-> lower(enriched.value.name),
                           data |-> <<enriched.value.category, 30,
                                      enriched.value.location>>])]
    ELSE tb

\* the tables after categorize_product: .items(), .keys() and [key] read the
\* dictionaries, and the subscript of a missing category raises KeyError
\* without inserting
tables_after(tb, enriched) == tb

\* one round of the loop of lines 355-388, given what its body does
EnrichStep(enriched) ==
    /\ tables' = tables_after(tables, enriched)
    /\ processed_products' =
            IF enriched.kind = "return"
            THEN Append(processed_products, enriched.value)
            ELSE processed_products
    /\ pc' = IF enriched.kind = "return" THEN "enrich" ELSE "except"
    /\ Step(IF enriched.kind = "return" THEN "classify" ELSE "classify_raised")
    /\ UNCHANGED <<menuVars, segVars, product_name, best_match_score, best_match_data,
                   cat_result, request, tmp_exists, reader_inits, ticket,
                   result, session, inventory, response, scans, previous>>

\* lines 355-388: the line item is classified and enriched
EnrichProduct ==
    /\ pc = "enrich"
    /\ Len(processed_products) < Len(products)
    /\ enrich(next_product, ticket, tables).kind = "return"
    /\ EnrichStep(enrich(next_product, ticket, tables))

\* lines 361-362: the classification or the date arithmetic raises
EnrichRaises ==
    /\ pc = "enrich"
    /\ Len(processed_products) < Len(products)
    /\ enrich(next_product, ticket, tables).kind # "return"
    /\ EnrichStep(enrich(next_product, ticket, tables))

\* lines 398-407 and ticket_scan.py line 47
ReturnResult ==
    /\ pc = "enrich"
    /\ Len(processed_products) = Len(products)
    /\ result' = <<ticket_result(text, ticket, processed_products)>>
    /\ pc' = "import"
    /\ Step("return")
    /\ UNCHANGED <<menuVars, segVars, catVars, request, tmp_exists, reader_inits, ticket,
                   processed_products, session, inventory, response, scans,
                   previous>>

\* ticket_scan.py lines 52-68: one round of the loop
AddProduct ==
    /\ pc = "import"
    /\ request.auto_import
    /\ Len(session) < Len(result[1].products)
    /\ session' = Append(session,
                         db_product(request.user,
                                    result[1].products[Len(session) + 1]))
    /\ Step("add")
    /\ UNCHANGED <<menuVars, segVars, catVars, pc, request, tmp_exists, reader_inits,
                   ticket, processed_products, result, inventory, response,
                   scans, previous>>

\* ticket_scan.py line 70: the rows of the session are stored together
Commit ==
    /\ pc = "import"
    /\ request.auto_import
    /\ Len(session) = Len(result[1].products)
    /\ inventory' = inventory \o session
    /\ session' = <<>>
    /\ pc' = "unlink"
    /\ Step("commit")
    /\ UNCHANGED <<menuVars, segVars, catVars, request, tmp_exists, reader_inits, ticket,
                   processed_products, result, response, scans, previous>>

\* ticket_scan.py line 70: the database refuses, nothing is stored
CommitRaises ==
    /\ pc = "import"
    /\ request.auto_import
    /\ Len(session) = Len(result[1].products)
    /\ pc' = "except"
    /\ Step("commit_raised")
    /\ UNCHANGED <<menuVars, segVars, catVars, request, tmp_exists, reader_inits, ticket,
                   processed_products, result, session, inventory, response,
                   scans, previous>>

\* ticket_scan.py line 51: auto_import is off
SkipImport ==
    /\ pc = "import"
    /\ ~request.auto_import
    /\ pc' = "unlink"
    /\ Step("no_import")
    /\ UNCHANGED <<menuVars, segVars, catVars, request, tmp_exists, reader_inits, ticket,
                   processed_products, result, session, inventory, response,
                   scans, previous>>

\* ticket_scan.py lines 75-79
success_body ==
    [ticket |-> result[1],
     auto_imported |-> request.auto_import,
     created_products |->
        IF request.auto_import
        THEN [k \in DOMAIN result[1].products |-> result[1].products[k].name]
        ELSE <<>>]

\* ticket_scan.py lines 73-79
Respond ==
    /\ pc = "unlink"
    /\ tmp_exists' = FALSE
    /\ response' = [status |-> 200, body |-> <<success_body>>]
    /\ pc' = "answered"
    /\ Step("respond")
    /\ UNCHANGED <<menuVars, segVars, catVars, request, reader_inits, ticket,
                   processed_products, result, session, inventory, scans,
                   previous>>

\* the handler without the removal of the file
kept_if_exists(exists) == exists

\* ticket_scan.py lines 82-83: "if os.path.exists(tmp_path): os.unlink"
removed_if_exists(exists) == IF exists THEN FALSE ELSE exists

\* ticket_scan.py lines 81-85; app/database.py get_db closes the session,
\* which drops the rows that were not committed
HandleError ==
    /\ pc = "except"
    /\ tmp_exists' = removed_if_exists(tmp_exists)
    /\ session' = <<>>
    /\ response' = [status |-> 500, body |-> <<>>]
    /\ pc' = "answered"
    /\ Step("handler")
    /\ UNCHANGED <<menuVars, segVars, catVars, request, reader_inits, ticket,
                   processed_products, result, inventory, scans, previous>>

\* the next request
NextRequest ==
    /\ pc = "answered"
    /\ scans < MaxScans
    /\ scans' = scans + 1
    /\ \E req \in Requests : Received(req)
    /\ UNCHANGED <<menuVars, catVars, segRest, tmp_exists, reader_inits, inventory>>

NextScan ==
    \/ RejectUpload
    \/ MissingContentType
    \/ SaveUpload
    \/ OcrReturns
    \/ OcrRaises
    \/ ExtractMetadata
    \/ Segment
    \/ EnrichProduct
    \/ EnrichRaises
    \/ ReturnResult
    \/ AddProduct
    \/ Commit
    \/ CommitRaises
    \/ SkipImport
    \/ Respond
    \/ HandleError
    \/ NextRequest

SpecScan == InitScan /\ [][NextScan]_vars

(***************************************************************************)
(* SpecMeta: the four metadata extractors on one text, in the order of     *)
(* process_ticket lines 332-335                                            *)
(***************************************************************************)
L_total_050   == <<"T", "O", "T", "A", "L", " ", "0", ",", "5", "0">>
L_total_bad   == <<"T", "o", "t", "a", "l", " ", "1", ".", "2", ".", "3">>
L_importe     == <<"I", "m", "p", "o", "r", "t", "e", ":", " ", "1", "2", ",",
                   "5", "0", " ", "€">>
L_date_feb_31 == <<"3", "1", "/", "0", "2", "/", "2", "0", "2", "4">>

MetaVocabulary ==
    {L_mercadona, L_total, L_total_050, L_total_bad, L_importe, L_date_slash,
     L_date_dash, L_date_feb_31}

MetaTexts ==
    {join(<<"\n">>, ls) :
        ls \in UNION {[1..n -> MetaVocabulary] : n \in 1..MaxLines}}

InitMeta ==
    /\ MenuIdle
    /\ pc = "store"
    /\ text \in MetaTexts
    /\ lines = <<>>
    /\ start_idx = 0
    /\ end_idx = 0
    /\ i = 0
    /\ description_parts = <<>>
    /\ products = <<>>
    /\ part_src = <<>>
    /\ item_src = <<>>
    /\ CatIdle
    /\ ScanIdle

\* line 332
StoreStep ==
    /\ pc = "store"
    /\ ticket' = [store |-> extract_store_name(text)]
    /\ pc' = "location"
    /\ UNCHANGED <<menuVars, segVars, catVars, request, tmp_exists, reader_inits,
                   processed_products, result, session, inventory, response,
                   scans, trace, previous>>

\* line 333
LocationStep ==
    /\ pc = "location"
    /\ ticket' = [store |-> ticket.store, location |-> extract_location(text)]
    /\ pc' = "date"
    /\ UNCHANGED <<menuVars, segVars, catVars, request, tmp_exists, reader_inits,
                   processed_products, result, session, inventory, response,
                   scans, trace, previous>>

\* line 334
DateStep ==
    /\ pc = "date"
    /\ \E now \in Clock :
            ticket' = [store |-> ticket.store, location |-> ticket.location,
                       purchase_date |-> extract_purchase_date(text, now)]
    /\ pc' = "totals"
    /\ UNCHANGED <<menuVars, segVars, catVars, request, tmp_exists, reader_inits,
                   processed_products, result, session, inventory, response,
                   scans, trace, previous>>

\* line 335
TotalsStep ==
    /\ pc = "totals"
    /\ ticket' = [store |-> ticket.store, location |-> ticket.location,
                  purchase_date |-> ticket.purchase_date,
                  metadata |-> extract_totals_and_metadata(text)]
    /\ pc' = "extracted"
    /\ UNCHANGED <<menuVars, segVars, catVars, request, tmp_exists, reader_inits,
                   processed_products, result, session, inventory, response,
                   scans, trace, previous>>

NextMeta ==
    \/ StoreStep
    \/ LocationStep
    \/ DateStep
    \/ TotalsStep

SpecMeta == InitMeta /\ [][NextMeta]_vars

(***************************************************************************)
(* Claims on parse_product_lines (checked under SpecSeg)                   *)
(***************************************************************************)
Thousandths(units, frac) == units * Scale + frac

InRange(p) == 10 * p > Scale /\ p < 200 * Scale

\* C1 as stated: on the pasta scenario parse_product_lines returns exactly one
\* item with quantity 2, description "Pasta Barilla", unit_price 1.50 and
\* price 3.00.
C1_AsStated ==
    (pc = "done" /\ text = ScenarioPasta)
        => products = <<LineItem(2, L_pasta, <<Thousandths(1, 500)>>,
                                 Thousandths(3, 0))>>

\* C1 amended: on the pasta scenario parse_product_lines returns exactly one
\* item with quantity 1, description "Pasta Barilla", no unit_price and price
\* 2.00: the line "2" is a price-line and closes the item.
C1_PastaScenario ==
    (pc = "done" /\ text = ScenarioPasta)
        => products = <<LineItem(1, L_pasta, <<>>, Thousandths(2, 0))>>

C1_Witness == pc = "done" /\ text = ScenarioPasta /\ Len(products) = 1

\* C2: when a price-line is reached with a non-empty buffer whose derived
\* quantity exceeds 1 and the next line is in the window and is a price-line
\* of strictly greater value, the item emitted has unit_price = the first
\* value and price = the second, and the cursor moves past exactly these two
\* lines, so that the second is never the current line of an iteration.
C2_Case ==
    /\ pc = "walk"
    /\ i < end_idx
    /\ is_price(cur_line) # <<>>
    /\ description_parts # <<>>
    /\ derived_quantity(description_parts) > 1
    /\ i + 1 < end_idx
    /\ is_price(lines[i + 2]) # <<>>
    /\ is_price(lines[i + 2])[1] > is_price(cur_line)[1]

C2_UnitThenTotal ==
    [][C2_Case =>
          /\ Len(products') = Len(products) + 1
          /\ SubSeq(products', 1, Len(products)) = products
          /\ products'[Len(products')].unit_price = is_price(lines[i + 1])
          /\ <<products'[Len(products')].price>> = is_price(lines[i + 2])
          /\ products'[Len(products')].quantity > 1
          /\ i' = i + 2
          /\ description_parts' = <<>>]_vars

C2_Witness ==
    /\ pc = "done"
    /\ \E k \in DOMAIN products :
          /\ products[k].quantity = 2
          /\ products[k].unit_price = <<Thousandths(1, 500)>>
          /\ products[k].price = Thousandths(3, 0)
          /\ item_src[k].price = Max(item_src[k].unit_price) + 1

\* C3: every emitted item has a price strictly between 0.10 and 200.00 and,
\* when it has one, a unit_price strictly between 0.10 and 200.00; no price
\* or unit price is read from a line "15000".
C3_PricesInRange ==
    \A k \in DOMAIN products :
        /\ InRange(products[k].price)
        /\ \A u \in Range(products[k].unit_price) : InRange(u)
        /\ \A n \in {item_src[k].price} \cup item_src[k].unit_price :
               strip(lines[n + 1]) # L_15000

C3_Witness ==
    /\ pc = "done"
    /\ products # <<>>
    /\ \E n \in start_idx..(end_idx - 1) : lines[n + 1] = L_15000

\* the lines an emitted item was read from
ItemLines(k) ==
    item_src[k].description \cup item_src[k].unit_price \cup {item_src[k].price}

\* C4 as stated: the window runs from after the first header line (or from the
\* first line) to before the first line of the text that matches the total
\* label (or to the last line), and no item is read from outside it.
C4_AsStated ==
    pc # "parse" =>
        LET H  == {k \in 0..(Len(lines) - 1) : IsHeader(lines[k + 1])}
            T  == {k \in 0..(Len(lines) - 1) : IsTotalLabel(lines[k + 1])}
            lo == IF H = {} THEN 0 ELSE Min(H) + 1
            hi == IF T = {} THEN Len(lines) ELSE Min(T)
        IN  \A k \in DOMAIN products : \A n \in ItemLines(k) : lo <= n /\ n < hi

\* C4 amended: the window runs from after the first header line (or from the
\* first line) to before the first line at or after that start that begins
\* with the total label (or to the last line); the cursor stays in it and no
\* item is read from outside it.
C4_Window ==
    pc # "parse" =>
        LET H  == {k \in 0..(Len(lines) - 1) : IsHeader(lines[k + 1])}
            lo == IF H = {} THEN 0 ELSE Min(H) + 1
            T  == {k \in lo..(Len(lines) - 1) : IsTotalLabel(lines[k + 1])}
            hi == IF T = {} THEN Len(lines) ELSE Min(T)
        IN  /\ start_idx = lo
            /\ end_idx = hi
            /\ lo <= i
            /\ i <= hi
            /\ \A k \in DOMAIN products : \A n \in ItemLines(k) : lo <= n /\ n < hi

C4_Witness ==
    /\ pc = "done"
    /\ text = ScenarioOutside
    /\ Len(products) = 1
    /\ start_idx > 0
    /\ end_idx < Len(lines)

(***************************************************************************)
(* Claims on categorize_product, checked under SpecCat                     *)
(***************************************************************************)
\* the call has ended, by a return or by an exception
Finished == pc \in {"returned", "raised"}

\* the table positions whose key occurs in the lower-cased description
ContainedKeys ==
    {k \in DOMAIN tables.PRODUCT_DATABASE :
        Contains(lower(product_name), tables.PRODUCT_DATABASE[k].key)}

\* C5 as stated: a description that contains a key of the table gets the
\* triple mapped to that key, for every key it contains.
C5_AsStated ==
    Finished =>
        \A k \in ContainedKeys :
            /\ cat_result.kind = "return"
            /\ cat_result.value = tables.PRODUCT_DATABASE[k].data

\* C5 amended: a description that contains keys of the table gets the triple
\* mapped to the first of them in the iteration order of the table, whatever
\* other words surround it.
C5_FirstKeyWins ==
    Finished =>
        \A k \in ContainedKeys :
            (\A j \in ContainedKeys : k <= j) =>
                /\ cat_result.kind = "return"
                /\ cat_result.value = tables.PRODUCT_DATABASE[k].data

\* a description with two keys in it was classified by the first of them
C5_Witness ==
    /\ pc = "returned"
    /\ product_name = D_leche_soja
    /\ tables = TablesSpecific
    /\ Cardinality(ContainedKeys) = 2
    /\ cat_result.value = <<"beverages", 180, "pantry">>

\* the words of the description the fuzzy tier scores
ScoredWords ==
    {w \in Range(split_words(lower(product_name))) : Len(w) >= 3}

\* the highest fuzz.ratio of a scored word and a key, 0 without any
BestFuzzyScore ==
    Max({0} \cup {fuzz_ratio(full_process(w),
                             full_process(tables.PRODUCT_DATABASE[k].key)) :
                     w \in ScoredWords, k \in DOMAIN tables.PRODUCT_DATABASE})

\* a keyword of some category occurs in the lower-cased description
AnyKeyword ==
    \E c \in DOMAIN tables.CATEGORY_KEYWORDS :
        \E k \in DOMAIN tables.CATEGORY_KEYWORDS[c].keywords :
            Contains(lower(product_name), tables.CATEGORY_KEYWORDS[c].keywords[k])

\* the first tier that succeeds
FirstTier ==
    IF ContainedKeys # {} THEN "exact"
    ELSE IF BestFuzzyScore > 70 THEN "fuzzy"
    ELSE IF AnyKeyword THEN "keyword"
    ELSE "default"

\* C6: the tiers are tried in a fixed order and the first success ends the
\* call: the fuzzy result only when no key is a substring, the keyword result
\* only when also the best fuzzy score is at most 70, the default only when
\* also no keyword is a substring.
C6_TierOrder == Finished => cat_result.tier = FirstTier

\* the keyword tier answered after a best fuzzy score of exactly 70
C6_Witness ==
    /\ pc = "returned"
    /\ product_name = D_zanahorete
    /\ ContainedKeys = {}
    /\ best_match_score = 70
    /\ cat_result.tier = "keyword"

\* C7 as stated: categorize_product never raises, whatever the description
\* and the tables; a description no tier matches is "other", 30 days,
\* "pantry", one the keyword tier matches gets the defaults of the category.
C7_AsStated ==
    /\ pc # "raised"
    /\ (pc = "returned" /\ cat_result.tier = "default") =>
            cat_result.value = <<"other", 30, "pantry">>
    /\ (pc = "returned" /\ cat_result.tier = "keyword") =>
            /\ cat_result.value[1] \in DOMAIN tables.DEFAULT_EXPIRATION_DAYS
            /\ cat_result.value[2] =
                    tables.DEFAULT_EXPIRATION_DAYS[cat_result.value[1]]
            /\ cat_result.value[3] = tables.DEFAULT_LOCATIONS[cat_result.value[1]]

(***************************************************************************)
(* Claims on process_ticket and scan_ticket, checked under SpecScan        *)
(***************************************************************************)
\* the calendar day after the day of d, at the same time of day
next_day(d) ==
    IF d.day < days_in_month(d.year, d.month) THEN [d EXCEPT !.day = d.day + 1]
    ELSE IF d.month < 12 THEN [d EXCEPT !.month = d.month + 1, !.day = 1]
    ELSE [d EXCEPT !.year = d.year + 1, !.month = 1, !.day = 1]

\* n calendar days after d, at the same time of day
RECURSIVE days_later(_, _)
days_later(d, n) == IF n = 0 THEN d ELSE days_later(next_day(d), n - 1)

\* the shelf life the classifier gives the k-th line item
ShelfLife(k) == categorize_product(products[k].description, tables).value[2]

\* C8: every product of the result of process_ticket expires exactly the
\* classifier's number of whole days after the purchase date, at the same
\* time of day, whatever its quantity and price.
C8_Expiration ==
    result # <<>> =>
        \A k \in DOMAIN result[1].products :
            /\ result[1].products[k].purchase_date = isoformat(ticket.purchase_date)
            /\ result[1].products[k].expiration_date =
                    isoformat(days_later(ticket.purchase_date, ShelfLife(k)))

\* an item bought twice on 28/02/2024 with three days of shelf life expires
\* on 02/03/2024, after the 29th of February
C8_Witness ==
    /\ result # <<>>
    /\ \E k \in DOMAIN result[1].products :
        /\ products[k].quantity = 2
        /\ ShelfLife(k) = 3
        /\ result[1].products[k].purchase_date = <<"2", "0", "2", "4", "-", "0", "2", "-", "2", "8", "T", "0", "0", ":", "0", "0", ":", "0", "0">>
        /\ result[1].products[k].expiration_date = <<"2", "0", "2", "4", "-", "0", "3", "-", "0", "2", "T", "0", "0", ":", "0", "0", ":", "0", "0">>

\* the unit spelled at position c of d, "none" without one
UnitSpelled(d, c) ==
    IF StartsAt(d, c, <<"k", "g">>) THEN "kg"
    ELSE IF StartsAt(d, c, <<"m", "l">>) THEN "ml"
    ELSE IF StartsAt(d, c, <<"g">>) THEN "g"
    ELSE IF StartsAt(d, c, <<"l">>) THEN "l"
    ELSE "none"

\* the weight/volume tokens of d: <<a, b, c>> with digits from a to b, blanks
\* from b to c and a unit at c
WeightTokens(d) ==
    {tk \in (0..Len(d)) \X (0..Len(d)) \X (0..Len(d)) :
        /\ tk[1] < tk[2]
        /\ tk[2] <= tk[3]
        /\ \A j \in (tk[1] + 1)..tk[2] : d[j] \in Digit
        /\ \A j \in (tk[2] + 1)..tk[3] : d[j] \in Whitespace
        /\ UnitSpelled(d, tk[3]) # "none"}

\* the first token of d
FirstToken(d) ==
    CHOOSE tk \in WeightTokens(d) : \A other \in WeightTokens(d) : tk[1] <= other[1]

\* the quantity and unit the description and the count of an item call for
QuantityAndUnit(d, count) ==
    IF WeightTokens(d) # {}
    THEN [quantity |-> IntOf(Slice(d, FirstToken(d)[1], FirstToken(d)[2])) * Scale,
          unit |-> UnitSpelled(d, FirstToken(d)[3])]
    ELSE IF count > 1 THEN [quantity |-> count * Scale, unit |-> "units"]
    ELSE [quantity |-> Scale, unit |-> "units"]

\* C9: a product gets the integer and the unit of the weight/volume token of
\* its description, gr being g; without a token the count and "units" when
\* the count is above 1, else 1.0 and "units"; the unit is one of kg, g, l,
\* ml, units.
C9_QuantityUnit ==
    result # <<>> =>
        \A k \in DOMAIN result[1].products :
            /\ result[1].products[k].quantity =
                    QuantityAndUnit(lower(products[k].description),
                                    products[k].quantity).quantity
            /\ result[1].products[k].unit =
                    QuantityAndUnit(lower(products[k].description),
                                    products[k].quantity).unit
            /\ result[1].products[k].unit \in {"kg", "g", "l", "ml", "units"}

\* "Pan 500 gr" bought twice is 500.0 g
C9_Witness ==
    /\ result # <<>>
    /\ \E k \in DOMAIN result[1].products :
        /\ products[k].description = D_pan_gr
        /\ products[k].quantity = 2
        /\ result[1].products[k].quantity = 500 * Scale
        /\ result[1].products[k].unit = "g"

\* the text extractor raised while this request was served
OcrRaised == \E k \in DOMAIN trace : trace[k] = "ocr_raised"

\* the steps that follow the extraction when it succeeds
LaterSteps ==
    {"metadata", "segment", "classify", "classify_raised", "return", "add",
     "commit", "commit_raised", "no_import", "respond"}

\* C10: when the text extractor raises, process_ticket raises: no metadata
\* extraction, segmentation or classification runs, no result is returned,
\* the endpoint answers with a processing failure and no product is stored.
C10_ExtractorFailure ==
    /\ [](OcrRaised =>
            /\ pc \in {"except", "answered"}
            /\ \A k \in DOMAIN trace : trace[k] \notin LaterSteps
            /\ ticket = <<>>
            /\ products = <<>>
            /\ processed_products = <<>>
            /\ result = <<>>
            /\ session = <<>>
            /\ pc = "answered" => response.status = 500)
    /\ [][OcrRaised => inventory' = inventory]_vars

\* a request with auto_import was answered 500 after the extractor raised, and
\* the inventory holds what an earlier request stored
C10_Witness ==
    /\ pc = "answered"
    /\ OcrRaised
    /\ request.auto_import
    /\ response.status = 500
    /\ inventory # <<>>


\* the text extractor returned a text while this request was served
OcrReturned == \E k \in DOMAIN trace : trace[k] = "ocr"

\* C11 as stated: once the text extractor has returned, no later stage of the
\* pipeline raises: metadata extraction, segmentation and the enrichment of
\* every product complete, whatever the text and the tables.
C11_AsStated ==
    OcrReturned => \A k \in DOMAIN trace : trace[k] # "classify_raised"

KnownStore == \E k \in DOMAIN stores : Contains(lower(text), stores[k].key)

Unknown == <<"U", "n", "k", "n", "o", "w", "n">>

\* C13 as stated: when no known retailer name fragment occurs in the text,
\* extract_store_name returns the sentinel "Unknown".
C13_AsStated ==
    (pc # "store" /\ ~KnownStore) => ticket.store = Unknown

\* C13 amended: when no known retailer name fragment occurs in the text,
\* extract_store_name returns the sentinel "Desconocido"; when one occurs it
\* returns a canonical retailer name, never the sentinel.
C13_Sentinel ==
    pc # "store" =>
        /\ ~KnownStore => ticket.store = Desconocido
        /\ KnownStore =>
               /\ ticket.store # Desconocido
               /\ \E k \in DOMAIN stores : ticket.store = stores[k].name

\* the store of a text of three lines without a retailer name was extracted
C13_Witness ==
    /\ pc = "location"
    /\ ~KnownStore
    /\ Len(split(text, "\n")) = 3
    /\ ticket.store = Desconocido

\* the positions where the "total" pattern and the "importe" pattern match
TotalLabels == {k \in 0..Len(text) : total_at(text, k)}

ImporteLabels == {k \in 0..Len(text) : importe_at(text, k)}

\* the amount after the label at k, <<>> when it is no number
TotalAmount(k) == float_of(NumRun(text, total_group(text, k)))

ImporteAmount(k) == float_of(NumRun(text, importe_group(text, k)))

\* an amount strictly between 1.0 and 10000.0
Bounded(amount) ==
    amount # <<>> /\ amount[1] > Scale /\ amount[1] < 10000 * Scale

\* C14 as stated: the total is the amount of the first "total"-label match of
\* the text whose amount lies strictly between 1.0 and 10000.0, an earlier
\* out-of-bound or unparsable match not preventing a later one from being
\* used (the "importe" label being looked at the same way when no "total"
\* label qualifies), and 0.0 when there is no such match.
C14_AsStated ==
    pc = "extracted" =>
        LET T == {k \in TotalLabels : Bounded(TotalAmount(k))}
            I == {k \in ImporteLabels : Bounded(ImporteAmount(k))}
        IN  ticket.metadata.total =
                IF T # {} THEN TotalAmount(Min(T))[1]
                ELSE IF I # {} THEN ImporteAmount(Min(I))[1]
                ELSE 0

\* C14 amended: only the first match of the "total" label and the first match
\* of the "importe" label are looked at, in this order: the total is the
\* amount of the first of the two that is a number strictly between 1.0 and
\* 10000.0, and 0.0 when neither is; a first "total" match that is out of
\* bound or unparsable hides every later "total" match.
C14_FirstMatchOnly ==
    pc = "extracted" =>
        LET first  == IF TotalLabels = {} THEN <<>>
                      ELSE TotalAmount(Min(TotalLabels))
            second == IF ImporteLabels = {} THEN <<>>
                      ELSE ImporteAmount(Min(ImporteLabels))
        IN  ticket.metadata.total =
                IF Bounded(first) THEN first[1]
                ELSE IF Bounded(second) THEN second[1]
                ELSE 0

\* the total of a text was extracted whose first "total" amount is out of
\* bound and whose second is in bound: it is 0.0
C14_Witness ==
    /\ pc = "extracted"
    /\ Cardinality(TotalLabels) = 2
    /\ ~Bounded(TotalAmount(Min(TotalLabels)))
    /\ \E k \in TotalLabels : Bounded(TotalAmount(k))
    /\ ImporteLabels = {}
    /\ ticket.metadata.total = 0

\* the positions where DD/MM/YYYY and DD-MM-YYYY match
SlashDates == {k \in 0..Len(text) : date_at(text, k, "/")}

DashDates == {k \in 0..Len(text) : date_at(text, k, "-")}

\* extract_purchase_date has returned
DateRead == pc \in {"totals", "extracted"}

\* C15 as stated: extract_purchase_date returns the date of the first
\* DD/MM/YYYY match if any DD/MM/YYYY match exists, even when a DD-MM-YYYY
\* match occurs earlier; otherwise the date of the first DD-MM-YYYY match; and
\* the current date and time only when neither pattern matches anywhere.
C15_AsStated ==
    DateRead =>
        IF SlashDates # {}
        THEN date_of(text, Min(SlashDates)) = <<ticket.purchase_date>>
        ELSE IF DashDates # {}
             THEN date_of(text, Min(DashDates)) = <<ticket.purchase_date>>
             ELSE ticket.purchase_date \in Clock

\* C15 amended: only the first match of each pattern is looked at.
\* extract_purchase_date returns the date of the first DD/MM/YYYY match when
\* that match is a calendar date, even when a DD-MM-YYYY match occurs earlier;
\* otherwise the date of the first DD-MM-YYYY match when that match is a
\* calendar date; and the current date and time in every other case: no match
\* of either pattern, or first matches that are no calendar dates.
C15_FirstMatches ==
    DateRead =>
        LET slash == IF SlashDates = {} THEN <<>>
                     ELSE date_of(text, Min(SlashDates))
            dash  == IF DashDates = {} THEN <<>>
                     ELSE date_of(text, Min(DashDates))
        IN  IF slash # <<>> THEN ticket.purchase_date = slash[1]
            ELSE IF dash # <<>> THEN ticket.purchase_date = dash[1]
            ELSE ticket.purchase_date \in Clock

\* the date of a text was read in which a DD-MM-YYYY date comes before a
\* DD/MM/YYYY date: it is the DD/MM/YYYY date
C15_Witness ==
    /\ DateRead
    /\ SlashDates # {}
    /\ DashDates # {}
    /\ Min(DashDates) < Min(SlashDates)
    /\ date_of(text, Min(SlashDates)) = <<ticket.purchase_date>>
    /\ date_of(text, Min(DashDates)) # <<ticket.purchase_date>>

(***************************************************************************)
(* Further claims on parse_product_lines (checked under SpecSeg)           *)
(***************************************************************************)
\* the amount written on a line of digits, spaces, commas and periods only
Amount(line) ==
    LET cleaned == replace(replace(strip(line), " ", <<>>), ",", <<".">>)
    IN  IF AllNumeric(strip(line)) /\ IsFloatLiteral(cleaned)
        THEN <<FloatOf(cleaned)>>
        ELSE <<>>

\* a price-line: such a line with an amount strictly between 0.10 and 200
PriceLine(line) == Amount(line) # <<>> /\ InRange(Amount(line)[1])

\* the 0-based indices of the lines of the window
WindowLines == start_idx..(end_idx - 1)

\* C16: when the window holds no price-line, parse_product_lines returns an
\* empty item list, however many description-lines and noise lines the window
\* holds.
C16_NoPriceNoItem ==
    (pc = "done" /\ \A k \in WindowLines : ~PriceLine(lines[k + 1]))
        => products = <<>>

\* a call returned no item for a window of three lines without a price-line,
\* with a description-line left in the buffer and a noise line
C16_Witness ==
    /\ pc = "done"
    /\ Cardinality(WindowLines) = 3
    /\ \A k \in WindowLines : ~PriceLine(lines[k + 1])
    /\ \E k \in WindowLines : strip(lines[k + 1]) = L_15000
    /\ description_parts # <<>>
    /\ products = <<>>

\* the first description-line item k was read from
FirstLine(k) == strip(lines[Min(item_src[k].description) + 1])

\* the description starts with an integer followed by whitespace
LeadingInteger(d) ==
    /\ LeadingDigits(d) > 0
    /\ Len(d) > LeadingDigits(d)
    /\ d[LeadingDigits(d) + 1] \in Whitespace

\* C17 as stated: every emitted item has a quantity that is an integer of at
\* least 1: 1 when its description has no leading integer, and the leading
\* integer otherwise.
C17_AsStated ==
    \A k \in DOMAIN products :
        /\ products[k].quantity \in Nat
        /\ products[k].quantity >= 1
        /\ products[k].quantity =
               IF LeadingInteger(FirstLine(k))
               THEN IntOf(SubSeq(FirstLine(k), 1, LeadingDigits(FirstLine(k))))
               ELSE 1

\* the second half of C17 alone: the quantity is the leading integer of the
\* description, 1 without one
QuantityRead ==
    \A k \in DOMAIN products :
        products[k].quantity =
            IF LeadingInteger(FirstLine(k))
            THEN IntOf(SubSeq(FirstLine(k), 1, LeadingDigits(FirstLine(k))))
            ELSE 1

(***************************************************************************)
(* Further claims on scan_ticket (checked under SpecScan)                  *)
(***************************************************************************)
\* C18 as stated: over any sequence of requests served by one process the
\* easyocr Reader is initialised at most once, later requests reusing it.
C18_AsStated == reader_inits <= 1

\* C19: no step of a scan changes the reference tables: PRODUCT_DATABASE,
\* CATEGORY_KEYWORDS, DEFAULT_EXPIRATION_DAYS and DEFAULT_LOCATIONS are after
\* any number of calls of process_ticket and categorize_product what they were
\* before.
C19_TablesUnchanged == [][tables' = tables]_vars

\* the second request of a process has classified two products, the first
\* request having stored its own
C19_Witness ==
    /\ scans = 2
    /\ pc = "enrich"
    /\ Len(processed_products) = 2
    /\ inventory # <<>>
    /\ tables \in {TablesSpecific, TablesNoDefault}

\* how many times the current request took the step
Times(name) == Cardinality({k \in DOMAIN trace : trace[k] = name})

\* scan_ticket answered the request with the result
Succeeded == pc = "answered" /\ response.status = 200

\* the rows a step added to the inventory
AddedRows == SubSeq(inventory', Len(inventory) + 1, Len(inventory'))

\* C20: a request that succeeds has added one row per scanned product and
\* committed once when auto_import is set, and has added and committed
\* nothing when it is not; the inventory changes only in a commit, which
\* keeps the rows it held and adds the rows of all the scanned products
\* together, each with the user of the request and the status active.
C20_Import ==
    /\ [](Succeeded =>
            IF request.auto_import
            THEN /\ Times("add") = result[1].total_products
                 /\ Times("commit") = 1
            ELSE /\ Times("add") = 0
                 /\ Times("commit") = 0)
    /\ [][inventory' # inventory =>
            /\ pc = "import"
            /\ request.auto_import
            /\ trace' = Append(trace, "commit")
            /\ SubSeq(inventory', 1, Len(inventory)) = inventory
            /\ Len(AddedRows) = Len(result[1].products)
            /\ \A k \in DOMAIN AddedRows :
                   /\ AddedRows[k].user_id = request.user
                   /\ AddedRows[k].status = "active"
                   /\ AddedRows[k].name = result[1].products[k].name]_vars

\* the second request, of the second user and with auto_import, succeeded:
\* its two products are the last two rows of an inventory that held rows
\* before
C20_Witness ==
    /\ Succeeded
    /\ scans = 2
    /\ request.auto_import
    /\ request.user = 2
    /\ result[1].total_products = 2
    /\ Len(inventory) > 2
    /\ inventory[Len(inventory)].user_id = 2
    /\ inventory[1].user_id = 1

(***************************************************************************)
(* Claims on the walk of parse_product_lines (checked under SpecSeg)       *)
(***************************************************************************)
\* the price-lines of the window the cursor has passed
PriceLinesPassed ==
    {k \in WindowLines : k < i /\ PriceLine(lines[k + 1])}

\* the line at the cursor is a price-line met with an empty buffer, or a
\* noise line
Skipped ==
    /\ InLoop
    /\ \/ PriceLine(cur_line) /\ description_parts = <<>>
       \/ ~PriceLine(cur_line) /\ ~is_description(cur_line)

\* C23: a price-line met with an empty buffer and any noise line emit no item
\* and leave the buffer as it is; the items emitted never outnumber the
\* price-lines of the window passed so far; and the buffer is emptied only by
\* emitting an item.
C23_Skips ==
    /\ [](Len(products) <= Cardinality(PriceLinesPassed))
    /\ [][Skipped => /\ products' = products
                      /\ description_parts' = description_parts]_vars
    /\ [][(description_parts # <<>> /\ description_parts' = <<>>)
              => Len(products') = Len(products) + 1]_vars

\* a call returned one item for a window with two price-lines, the first met
\* with an empty buffer, and a noise line between the description and the
\* price of the item
C23_Witness ==
    /\ pc = "done"
    /\ Len(products) = 1
    /\ Cardinality(PriceLinesPassed) = 2
    /\ Min(PriceLinesPassed) < Min(item_src[1].description)
    /\ \E n \in WindowLines :
           /\ Min(item_src[1].description) < n
           /\ n < item_src[1].price
           /\ strip(lines[n + 1]) = L_15000

\* the line after the cursor is a price-line of the window with a value
\* strictly greater than the one at the cursor
TotalFollows ==
    /\ i + 1 < end_idx
    /\ PriceLine(lines[i + 2])
    /\ Amount(lines[i + 2])[1] > Amount(cur_line)[1]

\* a price-line met with a buffered description of quantity above 1 and no
\* line total after it
SoleCase ==
    /\ InLoop
    /\ PriceLine(cur_line)
    /\ description_parts # <<>>
    /\ derived_quantity(description_parts) > 1
    /\ ~TotalFollows

\* the last emitted item was read with no line total from the line before the
\* cursor, and the cursor is at a price-line of equal or smaller value
AfterSole ==
    /\ InLoop
    /\ products # <<>>
    /\ products[Len(products)].quantity > 1
    /\ products[Len(products)].unit_price = <<>>
    /\ item_src[Len(products)].price = i - 1
    /\ PriceLine(cur_line)
    /\ Amount(cur_line)[1] <= products[Len(products)].price

\* C24: when the derived quantity is above 1 and the next line is not a
\* price-line of the window with a strictly greater value, the item emitted
\* has no unit_price and the current value as price, the cursor moves by one
\* line, and a price-line of equal or smaller value that follows is passed
\* without emitting an item.
C24_SolePrice ==
    /\ [][SoleCase =>
            /\ Len(products') = Len(products) + 1
            /\ products'[Len(products')].quantity
                    = derived_quantity(description_parts)
            /\ products'[Len(products')].unit_price = <<>>
            /\ products'[Len(products')].price = Amount(cur_line)[1]
            /\ i' = i + 1]_vars
    /\ [][AfterSole => products' = products /\ i' = i + 1]_vars

\* an item of quantity 2 was emitted without unit_price and the price-line of
\* equal value after it was passed without a second item
C24_Witness ==
    /\ pc = "walk"
    /\ Len(products) = 1
    /\ products[1].quantity = 2
    /\ products[1].unit_price = <<>>
    /\ i = item_src[1].price + 2
    /\ PriceLine(lines[i])
    /\ Amount(lines[i])[1] = products[1].price

\* a line of digits, spaces, commas and periods whose value is not strictly
\* between 0.10 and 200
OutOfBound(line) == Amount(line) # <<>> /\ ~InRange(Amount(line)[1])

\* C25 as stated: a numeric line of the window whose value is outside
\* (0.10, 200.00) is appended to the description buffer, and so appears in
\* the description of the next emitted item.
C25_AsStated ==
    [][(InLoop /\ OutOfBound(cur_line))
          => description_parts' = Append(description_parts, cur_line)]_vars

\* C25 amended: a numeric line of the window whose value is outside
\* (0.10, 200.00) is neither a price nor a part of a description: the walk
\* passes it, emitting no item and leaving the buffer as it is, and no emitted
\* item has it among the lines of its description or as its price.
C25_NumericNoise ==
    /\ [][(InLoop /\ OutOfBound(cur_line)) =>
            /\ description_parts' = description_parts
            /\ products' = products
            /\ i' = i + 1]_vars
    /\ [](\A k \in DOMAIN products : \A n \in ItemLines(k) :
              ~OutOfBound(lines[n + 1]))

\* an item was emitted whose description-line and price-line have the line
\* "15000" between them: its description is the description-line alone
C25_Witness ==
    /\ pc = "done"
    /\ \E k \in DOMAIN products : \E n \in WindowLines :
           /\ OutOfBound(lines[n + 1])
           /\ item_src[k].description = {n - 1}
           /\ item_src[k].price = n + 1
           /\ products[k].description = strip(lines[n])

\* the lines of the window between a and the cursor that are description-lines
DescriptionLinesFrom(a) ==
    {k \in WindowLines : a <= k /\ k < i /\ is_description(strip(lines[k + 1]))}

\* the index after the last line the emitted items were read from, the start
\* of the window without an item
AfterLastItem ==
    IF products = <<>> THEN start_idx ELSE item_src[Len(products)].price + 1

\* the lines with the indices of S in ascending order
RECURSIVE InOrder(_)
InOrder(S) ==
    IF S = {} THEN <<>>
    ELSE <<strip(lines[Min(S) + 1])>> \o InOrder(S \ {Min(S)})

\* C26: the buffer holds, in their order, all description-lines met since
\* the previous emitted item or the start of the window, however many; the
\* next price-line emits them as one description, joined by single spaces
\* (the leading quantity taken off); and no description-line is part of two
\* items.
C26_Accumulate ==
    /\ [](pc = "walk" =>
            description_parts = InOrder(DescriptionLinesFrom(AfterLastItem)))
    /\ [][(InLoop /\ PriceLine(cur_line) /\ description_parts # <<>>) =>
            /\ Len(products') = Len(products) + 1
            /\ products'[Len(products')].description =
                   description_of(join(<<" ">>, description_parts),
                                  LeadingDigits(join(<<" ">>,
                                                     description_parts)))
            /\ item_src'[Len(products')].description
                   = DescriptionLinesFrom(AfterLastItem)]_vars
    /\ [](\A k, n \in DOMAIN products :
              k # n => item_src[k].description \cap item_src[n].description
                           = {})

\* a call returned two items, the first with a description of four lines
C26_Witness ==
    /\ pc = "done"
    /\ Len(products) = 2
    /\ Cardinality(item_src[1].description) = 4
    /\ products[1].description
           = join(<<" ">>, <<L_pasta, L_two_leche, L_pasta, L_two_leche>>)
    /\ products[2].description = L_pasta

\* a price-line that ends the window, met with a buffered description
LastLineCase ==
    /\ InLoop
    /\ i + 1 = end_idx
    /\ PriceLine(cur_line)
    /\ description_parts # <<>>

\* C27: no item has its price or line total read from the footer line or
\* from a line after it: the item emitted at the last line of the window,
\* whatever its quantity, has the value of that line as price and no
\* unit_price, and the walk ends with the cursor at the end of the window.
C27_Lookahead ==
    /\ [](\A k \in DOMAIN products :
              /\ item_src[k].price < end_idx
              /\ \A n \in item_src[k].unit_price : n + 1 < end_idx)
    /\ [][LastLineCase =>
            /\ Len(products') = Len(products) + 1
            /\ products'[Len(products')].price = Amount(cur_line)[1]
            /\ products'[Len(products')].unit_price = <<>>
            /\ item_src'[Len(products')].price = i
            /\ i' = end_idx]_vars

\* an item of quantity 2 was emitted at the last line of a window that ends
\* at a footer, and a price-line of greater value comes after the footer
C27_Witness ==
    /\ pc = "done"
    /\ products # <<>>
    /\ products[Len(products)].quantity = 2
    /\ products[Len(products)].unit_price = <<>>
    /\ item_src[Len(products)].price = end_idx - 1
    /\ end_idx + 1 < Len(lines)
    /\ PriceLine(lines[end_idx + 2])
    /\ Amount(lines[end_idx + 2])[1] > products[Len(products)].price

\* C28: an emitted item has a unit_price only if its quantity is above 1,
\* and a unit_price it has is strictly smaller than its price.
C28_UnitPrice ==
    \A k \in DOMAIN products :
        products[k].unit_price # <<>> =>
            /\ products[k].quantity > 1
            /\ products[k].unit_price[1] < products[k].price

\* a call returned an item of quantity 2 with a unit_price and, the price
\* after a description of quantity 1 being followed by a greater one, an item
\* of quantity 1 without
C28_Witness ==
    /\ pc = "done"
    /\ \E k \in DOMAIN products :
           /\ products[k].quantity = 2
           /\ products[k].unit_price # <<>>
    /\ \E k \in DOMAIN products :
           /\ products[k].quantity = 1
           /\ products[k].unit_price = <<>>
           /\ item_src[k].price + 1 < end_idx
           /\ PriceLine(lines[item_src[k].price + 2])
           /\ Amount(lines[item_src[k].price + 2])[1] > products[k].price

\* the current request took the step
Took(name) == \E k \in DOMAIN trace : trace[k] = name

C30_OneToOne ==
    result # <<>> =>
        /\ products = parse_product_lines(result[1].raw_text)
        /\ Len(result[1].products) = Len(products)
        /\ result[1].total_products = Len(result[1].products)
        /\ \A k \in DOMAIN products :
               /\ result[1].products[k].price = products[k].price
               /\ result[1].products[k].name = title(products[k].description)

\* a result was returned for a text with two line items of different prices
C30_Witness ==
    /\ result # <<>>
    /\ Len(products) = 2
    /\ products[1].price # products[2].price
    /\ result[1].products[1].price = products[1].price
    /\ result[1].products[2].price = products[2].price

(***************************************************************************)
(* The products API (app/api/products.py)                                  *)
(*                                                                         *)
(* The products table is `inventory`, in insertion order.  A row keeps the *)
(* columns the handlers read or write: id, user_id, name, status and       *)
(* expiration_date (a day number).  `request` is the call being answered   *)
(* and `response` its answer.  created_at and updated_at are left out.     *)
(***************************************************************************)
MaxProducts == 2

ProductIds == 1..(MaxProducts + 1)

\* the fields of the schema ProductUpdate that the rows of the model keep
ProductUpdateFields == {"name", "status", "expiration_date"}

\* JSON bodies sent to PUT /{product_id}
UpdateBodies ==
    { [expiration_date |-> 9],
      [user_id |-> 2, status |-> "consumed"] }

\* datetime.utcnow() at the time of a call
Nows == {2, 4}

\* ProductUpdate(**body).model_dump(exclude_unset=True): pydantic drops
\* the keys that are not fields of the schema
model_dump(body) ==
    [f \in (DOMAIN body) \cap ProductUpdateFields |-> body[f]]

\* the primary key given to a new row
new_id(table) ==
    IF table = <<>> THEN 1
    ELSE 1 + (CHOOSE n \in {table[k].id : k \in 1..Len(table)} :
                  \A k \in 1..Len(table) : table[k].id <= n)

\* the filter every handler on /{product_id} uses
own_product_any_user(row, product_id, user) == row.id = product_id

own_product(row, product_id, user) ==
    /\ row.id = product_id
    /\ row.user_id = user

\* db.query(Product).filter(...).first()
first_own(table, product_id, user) ==
    LET found == SelectSeq(table, LAMBDA row : own_product(row, product_id, user))
    IN  IF found = <<>> THEN <<>> ELSE <<found[1]>>

\* the rows of a query as a set
RowsOf(table) == {table[k] : k \in 1..Len(table)}

\* query.order_by(Product.expiration_date): any order of the rows that is
\* sorted by expiration date (the order of ties is the database's)
order_by_expiration(S) ==
    {s \in [1..Cardinality(S) -> S] :
        /\ \A a, b \in DOMAIN s : a # b => s[a] # s[b]
        /\ \A a, b \in DOMAIN s : a < b =>
               s[a].expiration_date <= s[b].expiration_date}

\* query.offset(skip).limit(limit)
offset_limit(s, offset, limit) ==
    SubSeq(s, offset + 1, IF offset + limit < Len(s) THEN offset + limit ELSE Len(s))

\* ProductList.model_validate(product) with days_until_expiration set
product_list(row, now) ==
    [id |-> row.id,
     name |-> row.name,
     expiration_date |-> row.expiration_date,
     status |-> row.status,
     days_until_expiration |-> row.expiration_date - now]

\* setattr(db_product, field, value) for each field of update_data
set_fields(row, update_data) ==
    [f \in DOMAIN row |->
        IF f \in DOMAIN update_data THEN update_data[f] ELSE row[f]]

not_found == [status |-> 404, body |-> "no encontrado"]

\* the table with the row of this id replaced
replaced(table, new_row) ==
    [k \in 1..Len(table) |->
        IF table[k].id = new_row.id THEN new_row ELSE table[k]]

ProdRest == <<pc, menuVars, segVars, catVars, tmp_exists, reader_inits, ticket,
              processed_products, result, session, scans, trace, previous>>

InitProd ==
    /\ MenuIdle
    /\ pc = "products"
    /\ SegIdle
    /\ CatIdle
    /\ ScanIdle

\* lines 20-51
create_product ==
    \E user \in Users, expiration \in {3} :
        /\ new_id(inventory) <= MaxProducts + 1
        /\ Len(inventory) < MaxProducts
        /\ LET row == [id |-> new_id(inventory),
                       user_id |-> user,
                       name |-> "Pan",
                       status |-> "active",
                       expiration_date |-> expiration]
           IN  /\ request' = [op |-> "create_product", user |-> user]
               /\ inventory' = Append(inventory, row)
               /\ response' = [status |-> 201, body |-> row]
        /\ UNCHANGED ProdRest

\* lines 54-84
list_products ==
    \E user \in Users, page_query \in {<<0, 100>>, <<1, 1>>},
       status_filter \in {"active", "all"}, now \in Nows :
        LET offset == page_query[1]
            limit == page_query[2]
            of_user == {row \in RowsOf(inventory) : row.user_id = user}
            filtered == IF status_filter # "all"
                        THEN {row \in of_user : row.status = status_filter}
                        ELSE of_user
        IN  \E ordered \in order_by_expiration(filtered) :
                LET page == offset_limit(ordered, offset, limit)
                IN  /\ request' = [op |-> "list_products", user |-> user]
                    /\ response' =
                           [status |-> 200,
                            body |-> [k \in 1..Len(page) |->
                                         product_list(page[k], now)]]
                    /\ UNCHANGED <<inventory, ProdRest>>

\* lines 87-111
get_expiring_soon ==
    \E user \in Users, days \in {3}, now \in Nows :
        LET cutoff_date == now + days
            soon == {row \in RowsOf(inventory) :
                        /\ row.user_id = user
                        /\ row.status = "active"
                        /\ row.expiration_date <= cutoff_date
                        /\ row.expiration_date >= now}
        IN  \E ordered \in order_by_expiration(soon) :
                /\ request' = [op |-> "get_expiring_soon", user |-> user]
                /\ response' =
                       [status |-> 200,
                        body |-> [k \in 1..Len(ordered) |->
                                     product_list(ordered[k], now)]]
                /\ UNCHANGED <<inventory, ProdRest>>

\* lines 114-134
get_product ==
    \E user \in Users, product_id \in ProductIds :
        LET product == first_own(inventory, product_id, user)
        IN  /\ request' = [op |-> "get_product", user |-> user,
                           product_id |-> product_id]
            /\ response' = IF product = <<>> THEN not_found
                           ELSE [status |-> 200, body |-> product[1]]
            /\ UNCHANGED <<inventory, ProdRest>>

\* lines 137-167
update_product ==
    \E user \in Users, product_id \in ProductIds, body \in UpdateBodies :
        LET product == first_own(inventory, product_id, user)
            update_data == model_dump(body)
        IN  /\ request' = [op |-> "update_product", user |-> user,
                           product_id |-> product_id]
            /\ IF product = <<>>
               THEN /\ response' = not_found
                    /\ UNCHANGED inventory
               ELSE LET updated == set_fields(product[1], update_data)
                    IN  /\ inventory' = replaced(inventory, updated)
                        /\ response' = [status |-> 200, body |-> updated]
            /\ UNCHANGED ProdRest

\* lines 170-193
delete_product ==
    \E user \in Users, product_id \in ProductIds :
        LET product == first_own(inventory, product_id, user)
        IN  /\ request' = [op |-> "delete_product", user |-> user,
                           product_id |-> product_id]
            /\ IF product = <<>>
               THEN /\ response' = not_found
                    /\ UNCHANGED inventory
               ELSE /\ inventory' = SelectSeq(inventory,
                                        LAMBDA row : row # product[1])
                    /\ response' = [status |-> 204, body |-> <<>>]
            /\ UNCHANGED ProdRest

\* lines 196-221
mark_as_consumed ==
    \E user \in Users, product_id \in ProductIds :
        LET product == first_own(inventory, product_id, user)
        IN  /\ request' = [op |-> "mark_as_consumed", user |-> user,
                           product_id |-> product_id]
            /\ IF product = <<>>
               THEN /\ response' = not_found
                    /\ UNCHANGED inventory
               ELSE LET consumed == [product[1] EXCEPT !.status = "consumed"]
                    IN  /\ inventory' = replaced(inventory, consumed)
                        /\ response' = [status |-> 200, body |-> consumed]
            /\ UNCHANGED ProdRest

NextProd ==
    \/ create_product
    \/ list_products
    \/ get_expiring_soon
    \/ get_product
    \/ update_product
    \/ delete_product
    \/ mark_as_consumed

SpecProd == InitProd /\ [][NextProd]_vars

\* the handlers that look one product up by its id
ByIdOps == {"get_product", "update_product", "delete_product",
            "mark_as_consumed"}

ListOps == {"list_products", "get_expiring_soon"}

\* the call just answered was made by the owner of the product it names
CalledByOwner ==
    \E row \in RowsOf(inventory) :
        /\ row.id = request'.product_id
        /\ row.user_id = request'.user

\* C21: a call of get_product, update_product, delete_product or
\* mark_as_consumed by user u on product p succeeds exactly when p is a row
\* of u; otherwise it answers 404 and the table is unchanged.  The lists of
\* list_products and get_expiring_soon hold only rows of the caller, and no
\* call changes the user_id of a row.
C21_Ownership ==
    [][/\ request'.op \in ByIdOps =>
              IF CalledByOwner
              THEN response'.status \in {200, 204}
              ELSE /\ response'.status = 404
                   /\ inventory' = inventory
       /\ request'.op \in ListOps =>
              \A k \in 1..Len(response'.body) :
                  \E row \in RowsOf(inventory) :
                      /\ row.id = response'.body[k].id
                      /\ row.user_id = request'.user
       /\ \A before \in RowsOf(inventory), after \in RowsOf(inventory') :
              before.id = after.id => before.user_id = after.user_id]_vars

\* user 2 sent an update for a product of user 1 and got 404
C21_Witness ==
    /\ request # <<>>
    /\ request.op = "update_product"
    /\ request.user = 2
    /\ response.status = 404
    /\ \E row \in RowsOf(inventory) :
           /\ row.id = request.product_id
           /\ row.user_id = 1
           /\ row.expiration_date = 9
    /\ \E row \in RowsOf(inventory) : row.user_id = 2

(***************************************************************************)
(* The shopping list of a weekly menu (app/services/menu_service.py)       *)
(*                                                                         *)
(* The products table is `inventory`, `request` holds the arguments of     *)
(* generate_shopping_list_from_menu and `result` what it returns.          *)
(* Quantities are floats in the code and integer hundredths here; dates    *)
(* are day numbers.  estimated_price and estimated_total_cost are left     *)
(* out.                                                                    *)
(***************************************************************************)
MaxMenus == 2

Hundredths == 100

N_pasta == <<"P", "a", "s", "t", "a">>

N_bacon == <<"B", "a", "c", "o", "n">>

N_sal == <<"S", "a", "l">>

N_pasta_fresca == <<"p", "a", "s", "t", "a", " ", "f", "r", "e", "s", "c", "a">>

N_pasta_integral ==
    <<"P", "a", "s", "t", "a", " ", "i", "n", "t", "e", "g", "r", "a", "l">>

Carbonara ==
    [id |-> 1, title |-> "Pasta Carbonara", base_servings |-> 2,
     ingredients |->
         <<[name |-> N_pasta, quantity |-> 200, unit |-> "g",
            category |-> "grains"],
           [name |-> N_bacon, quantity |-> 100, unit |-> "g",
            category |-> "meat"]>>]

Ensalada ==
    [id |-> 2, title |-> "Ensalada de pasta", base_servings |-> 3,
     ingredients |->
         <<[name |-> N_sal, quantity |-> 1, unit |-> "units",
            category |-> "condiments"],
           [name |-> N_pasta, quantity |-> 100, unit |-> "g",
            category |-> "grains"]>>]

SinIngredientes ==
    [id |-> 3, title |-> "Agua", base_servings |-> 2, ingredients |-> <<>>]

\* a row of weekly_menus with the recipe of its relationship; the week of
\* the request starts on day 20
menu_row(user, week, day, meal, recipe, servings) ==
    [user_id |-> user, week_start_date |-> week, day_of_week |-> day,
     meal_type |-> meal,
     recipe_id |-> IF recipe = <<>> THEN <<>> ELSE <<recipe.id>>,
     recipe |-> recipe, servings |-> servings]

MenuRows ==
    { menu_row(1, 20, 0, "lunch", Carbonara, 4),
      menu_row(1, 20, 2, "dinner", Carbonara, 2),
      menu_row(1, 20, 3, "lunch", Ensalada, 1),
      menu_row(1, 20, 4, "breakfast", <<>>, 2),
      menu_row(1, 20, 7, "snack", SinIngredientes, 2),
      menu_row(1, 27, 0, "lunch", Carbonara, 4),
      menu_row(2, 20, 0, "lunch", Carbonara, 4) }

MenuTables == UNION {[1..n -> MenuRows] : n \in 0..MaxMenus}

product_row(user, name, quantity, status) ==
    [user_id |-> user, name |-> name, quantity |-> quantity * Hundredths,
     status |-> status]

Inventories ==
    { <<>>,
      <<product_row(1, N_pasta_fresca, 300, "active")>>,
      <<product_row(1, N_pasta_fresca, 150, "active"),
        product_row(1, N_pasta_integral, 1000, "active")>>,
      <<product_row(2, N_pasta, 1000, "active"),
        product_row(1, N_bacon, 300, "consumed")>>,
      <<product_row(1, N_sal, 1, "active"),
        product_row(1, N_bacon, 100, "active")>> }

\* round(num / den, 2) in hundredths, ties to even
round2(num, den) ==
    LET n == num * Hundredths
        q == n \div den
        r == n % den
    IN  IF 2 * r < den THEN q
        ELSE IF 2 * r > den THEN q + 1
        ELSE IF q % 2 = 0 THEN q ELSE q + 1

\* lines 80-111
calculate_ingredients_for_servings(recipe, requested_servings) ==
    IF recipe = <<>> \/ recipe.ingredients = <<>>
    THEN [error |-> "Receta no valida o sin ingredientes"]
    ELSE [recipe_id |-> recipe.id,
          ingredients |->
              [k \in DOMAIN recipe.ingredients |->
                  [name |-> recipe.ingredients[k].name,
                   quantity_calculated |->
                       round2(recipe.ingredients[k].quantity * requested_servings,
                              recipe.base_servings),
                   unit |-> recipe.ingredients[k].unit,
                   category |-> recipe.ingredients[k].category]]]

\* Product.name.ilike(f"%{ingredient_name}%")
ilike(name, ingredient_name) == Contains(lower(name), lower(ingredient_name))

\* lines 177-183: the rows .first() can return, <<>> standing for None
product_in_inventory(table, user_id, ingredient_name) ==
    LET found == {k \in DOMAIN table :
                     /\ table[k].user_id = user_id
                     /\ ilike(table[k].name, ingredient_name)
                     /\ table[k].status = "active"}
    IN  IF found = {} THEN {<<>>} ELSE {<<table[k]>> : k \in found}

\* lines 185-204: the entry of one ingredient, given the product found
enough(quantity, quantity_needed) == quantity >= quantity_needed

ingredient_entry(ingredient, found) ==
    LET quantity_needed == ingredient.quantity_calculated
        available_qty == IF found # <<>> THEN found[1].quantity ELSE 0
        ok == found # <<>> /\ enough(found[1].quantity, quantity_needed)
    IN  [name |-> ingredient.name,
         quantity_needed |-> quantity_needed,
         unit |-> ingredient.unit,
         inventory_available |-> available_qty,
         status |-> IF ok THEN "OK" ELSE "MISSING",
         missing_quantity |-> IF ok THEN 0 ELSE quantity_needed - available_qty,
         category |-> ingredient.category]

\* lines 158-221: what check_ingredient_availability can return
check_ingredient_availability(table, user_id, recipe, requested_servings) ==
    LET calculated == calculate_ingredients_for_servings(recipe, requested_servings)
    IN  IF "error" \in DOMAIN calculated THEN {calculated}
        ELSE LET entries(k) ==
                     {ingredient_entry(calculated.ingredients[k], found) :
                         found \in product_in_inventory(
                                       table, user_id,
                                       calculated.ingredients[k].name)}
                 every == UNION {entries(k) : k \in DOMAIN calculated.ingredients}
             IN  {[recipe_id |-> recipe.id, ingredients |-> data] :
                     data \in {s \in [DOMAIN calculated.ingredients -> every] :
                                  \A k \in DOMAIN s : s[k] \in entries(k)}}

\* lines 301-305
day_labels == <<"Lun", "Mar", "Mie", "Jue", "Vie", "Sa", "Dom">>

meal_labels ==
    [breakfast |-> "desayuno", lunch |-> "comida", dinner |-> "cena"]

menu_ref(menu) ==
    <<IF 0 <= menu.day_of_week /\ menu.day_of_week < 7
      THEN day_labels[menu.day_of_week + 1] ELSE "?",
      "-",
      IF menu.meal_type \in DOMAIN meal_labels
      THEN meal_labels[menu.meal_type] ELSE "?">>

\* the position of a key of the dictionary, 0 when it is not a key
key_pos(items, ing_name) ==
    IF \E k \in DOMAIN items : items[k].name = ing_name
    THEN CHOOSE k \in DOMAIN items : items[k].name = ing_name
    ELSE 0

\* lines 297-318 for one ingredient; the dictionary is kept as the sequence
\* of its entries in insertion order
add_overwriting(items, ingredient, ref) ==
    LET at == key_pos(items, ingredient.name)
        entry == [name |-> ingredient.name,
                  quantity |-> ingredient.missing_quantity,
                  unit |-> ingredient.unit,
                  category |-> ingredient.category,
                  from_menus |-> <<ref>>]
    IN  IF ingredient.status # "MISSING" THEN items
        ELSE IF at # 0 THEN [items EXCEPT ![at] = entry]
        ELSE Append(items, entry)

add_missing(items, ingredient, ref) ==
    LET at == key_pos(items, ingredient.name)
    IN  IF ingredient.status # "MISSING" THEN items
        ELSE IF at # 0
        THEN [items EXCEPT
                 ![at].quantity = @ + ingredient.missing_quantity,
                 ![at].from_menus = Append(@, ref)]
        ELSE Append(items, [name |-> ingredient.name,
                            quantity |-> ingredient.missing_quantity,
                            unit |-> ingredient.unit,
                            category |-> ingredient.category,
                            from_menus |-> <<ref>>])

\* lines 296-318: the loop over the ingredients of one availability
RECURSIVE add_all(_, _, _)
add_all(items, ingredients, ref) ==
    IF ingredients = <<>> THEN items
    ELSE add_all(add_missing(items, Head(ingredients), ref),
                 Tail(ingredients), ref)

\* availability.get("ingredients", [])
ingredients_of(availability) ==
    IF "ingredients" \in DOMAIN availability THEN availability.ingredients
    ELSE <<>>

\* lines 320-339: the dictionary from category to the list of its items
items_by_category(items) ==
    [category \in {items[k].category : k \in DOMAIN items} |->
        LET of_category == SelectSeq(items, LAMBDA e : e.category = category)
        IN  [k \in DOMAIN of_category |->
                [ingredient |-> of_category[k].name,
                 quantity |-> of_category[k].quantity,
                 unit |-> of_category[k].unit,
                 from_menus |-> of_category[k].from_menus]]]

\* lines 265-271
in_week(menu, user_id, week_start_date) ==
    /\ menu.user_id = user_id
    /\ menu.week_start_date >= week_start_date
    /\ menu.week_start_date < week_start_date + 7

MenuRest == <<segVars, catVars, request, tmp_exists, reader_inits, ticket,
              processed_products, session, inventory, response, scans, trace,
              previous, weekly_menus>>

InitMenu ==
    /\ pc = "query"
    /\ SegIdle
    /\ CatIdle
    /\ tmp_exists = FALSE
    /\ reader_inits = 0
    /\ previous = <<>>
    /\ ticket = <<>>
    /\ processed_products = <<>>
    /\ result = <<>>
    /\ session = <<>>
    /\ response = <<>>
    /\ scans = 0
    /\ trace = <<>>
    /\ request = [user_id |-> 1, week_start_date |-> 20]
    /\ inventory \in Inventories
    /\ weekly_menus \in MenuTables
    /\ menus = <<>>
    /\ menu_pos = 0
    /\ shopping_items = <<>>
    /\ reports = <<>>

\* lines 263-277
QueryMenus ==
    /\ pc = "query"
    /\ menus' = SelectSeq(weekly_menus,
                    LAMBDA menu : in_week(menu, request.user_id,
                                          request.week_start_date))
    /\ IF menus' = <<>>
       THEN /\ result' = [error |-> "No hay menu para esta semana",
                          week_start_date |-> request.week_start_date]
            /\ pc' = "returned"
       ELSE /\ result' = result
            /\ pc' = "menus"
    /\ UNCHANGED <<menu_pos, shopping_items, reports, MenuRest>>

\* lines 282-284: "if not menu.recipe_id: continue"
SkipMenu ==
    /\ pc = "menus"
    /\ menu_pos < Len(menus)
    /\ menus[menu_pos + 1].recipe_id = <<>>
    /\ menu_pos' = menu_pos + 1
    /\ UNCHANGED <<pc, menus, shopping_items, reports, result, MenuRest>>

\* lines 286-318: one menu with a recipe
CheckMenu ==
    /\ pc = "menus"
    /\ menu_pos < Len(menus)
    /\ menus[menu_pos + 1].recipe_id # <<>>
    /\ LET menu == menus[menu_pos + 1]
       IN  \E availability \in check_ingredient_availability(
                                   inventory, request.user_id, menu.recipe,
                                   menu.servings) :
               /\ reports' = Append(reports, [menu |-> menu_pos + 1,
                                              availability |-> availability])
               /\ shopping_items' = add_all(shopping_items,
                                            ingredients_of(availability),
                                            menu_ref(menu))
    /\ menu_pos' = menu_pos + 1
    /\ UNCHANGED <<pc, menus, result, MenuRest>>

\* lines 320-348
GroupAndReturn ==
    /\ pc = "menus"
    /\ menu_pos = Len(menus)
    /\ result' = [week_start_date |-> request.week_start_date,
                  total_items_to_buy |-> Len(shopping_items),
                  items_by_category |-> items_by_category(shopping_items)]
    /\ pc' = "returned"
    /\ UNCHANGED <<menus, menu_pos, shopping_items, reports, MenuRest>>

NextMenu ==
    \/ QueryMenus
    \/ SkipMenu
    \/ CheckMenu
    \/ GroupAndReturn

SpecMenu == InitMenu /\ [][NextMenu]_vars

\* the list was generated: the call returned and not with an error
Generated == pc = "returned" /\ "items_by_category" \in DOMAIN result

\* the menus of the requested week of the user that have a recipe
WeekRecipeMenus ==
    SelectSeq(weekly_menus,
        LAMBDA row : /\ row.user_id = request.user_id
                     /\ row.week_start_date - request.week_start_date \in 0..6
                     /\ row.recipe_id # <<>>)

\* where the reports say MISSING for this ingredient: report and entry
MissingAt(name) ==
    {at \in (DOMAIN reports) \X (1..2) :
        LET entries == ingredients_of(reports[at[1]].availability)
        IN  /\ at[2] \in DOMAIN entries
            /\ entries[at[2]].name = name
            /\ entries[at[2]].status = "MISSING"}

RECURSIVE SumMissing(_)
SumMissing(S) ==
    IF S = {} THEN 0
    ELSE LET at == CHOOSE x \in S : TRUE
         IN  reports[at[1]].availability.ingredients[at[2]].missing_quantity
                 + SumMissing(S \ {at})

\* where the generated list names this ingredient: category and position
ListedAt(name) ==
    {at \in (DOMAIN result.items_by_category) \X (1..3) :
        /\ at[2] \in DOMAIN result.items_by_category[at[1]]
        /\ result.items_by_category[at[1]][at[2]].ingredient = name}

IngredientNames == {N_pasta, N_bacon, N_sal}

\* C22: the generated list holds one report of check_ingredient_availability
\* for each menu of the week with a recipe; an ingredient is in the list if
\* and only if some report says MISSING for it, it is there once, and its
\* quantity is the sum of the missing quantities of those reports; the
\* list has as many items as total_items_to_buy says.
C22_OnlyMissing ==
    Generated =>
        /\ Len(reports) = Len(WeekRecipeMenus)
        /\ \A r \in DOMAIN reports :
               reports[r].availability \in
                   check_ingredient_availability(
                       inventory, request.user_id, WeekRecipeMenus[r].recipe,
                       WeekRecipeMenus[r].servings)
        /\ \A name \in IngredientNames :
               /\ Cardinality(ListedAt(name)) =
                      IF MissingAt(name) # {} THEN 1 ELSE 0
               /\ \A at \in ListedAt(name) :
                      result.items_by_category[at[1]][at[2]].quantity =
                          SumMissing(MissingAt(name))
        /\ \A category \in DOMAIN result.items_by_category :
               \A k \in DOMAIN result.items_by_category[category] :
                   result.items_by_category[category][k].ingredient
                       \in IngredientNames
        /\ result.total_items_to_buy =
               Cardinality({name \in IngredientNames : MissingAt(name) # {}})

\* pasta is missing for two menus, 250 g and 50 g, and listed once with
\* 300 g, while the inventory has another pasta
C22_Witness ==
    /\ Generated
    /\ Cardinality(MissingAt(N_pasta)) = 2
    /\ Len(inventory) = 2
    /\ \E at \in ListedAt(N_pasta) :
           /\ result.items_by_category[at[1]][at[2]].quantity = 300 * Hundredths
           /\ Len(result.items_by_category[at[1]][at[2]].from_menus) = 2
    /\ ListedAt(N_bacon) # {}

=============================================================================
